---- MODULE Spec2Model ----
(***************************************************************************)
(* go-socket.io: the per-session engines of the two protocol generations.  *)
(*                                                                         *)
(*  Part I   the queue-based session (src/unnamed/part_000): Conn.Send,    *)
(*           Conn.Close, Conn.handle, keepalive, flusher and reader, with  *)
(*           the session table of src/socketio.go and the sockets of the   *)
(*           v0.6 transports.                                              *)
(*  Part II  the machine-based session (src/connection.go): Conn.machine,  *)
(*           flusher, drain, handle, Send, close and Receive.              *)
(*                                                                         *)
(* One session is modelled in each part.  Goroutines are processes with a  *)
(* program counter.  A step runs from one point where the goroutine can    *)
(* block or be observed (a lock, a channel operation, a socket call made   *)
(* without the mutex) to the next; code that runs with the mutex held and  *)
(* cannot block is one step with its lock and unlock.                      *)
(***************************************************************************)
EXTENDS Integers, Sequences, FiniteSets, TLC

(* ------------------------------ bounds --------------------------------- *)
\* Number of GET requests (sockets) served for the session.
MaxSockets == 2
\* Number of payloads (application payloads and heartbeats) ever enqueued.
MaxSeq == 3
\* Number of heartbeats the keepalive ticker enqueues.
MaxHeartbeats == 1
\* Config.QueueLength: capacity of the outbound queue channel.
QueueLength == 2
\* Config.ReconnectTimeout, in clock ticks.
ReconnectTimeout == 0
\* Number of heartbeats the machine-based session sends.
MaxBeats == 1
\* Number of messages the clients send to the machine-based session.
MaxInbound == 1
\* Number of payloads the application sends on the machine-based session.
MaxSends == 1
\* Largest id of a message of a client.
MaxId == 1

(* ======================================================================= *)
(*                   Part I: the queue-based session                       *)
(* ======================================================================= *)

VARIABLES
    mutex,            \* c.mutex: <<"free",0>> or <<"handle",i>>
    socket,           \* c.socket: 0 is nil, i > 0 the socket of request i
    online,           \* c.online
    sinceDisconnected,\* now - c.lastDisconnected, counted up to ReconnectTimeout+1
    lastHeartbeat,    \* c.lastHeartbeat
    numHeartbeats,    \* c.numHeartbeats
    queue,            \* c.queue: the buffered channel's content
    queueClosed,      \* close(c.queue) has run
    numConns,         \* c.numConns
    handshaked,       \* c.handshaked
    disconnected,     \* c.disconnected
    wakeupFlusher,    \* c.wakeupFlusher: "open" or "closed"
    wakeupReader,     \* c.wakeupReader: "open" or "closed"
    connected,        \* socket i's connected flag
    kind,             \* socket i's transport
    hpc,              \* position of the goroutine serving GET request i
    didHandshake,     \* handle's local didHandshake, per request
    kpc,              \* position of keepalive
    fpc,              \* position of flusher
    buf,              \* flusher's buf: the encoded batch not yet written
    rpc,              \* position of reader
    rsocket,          \* reader's local socket
    closing,          \* Close calls between disconnect() and sio.onDisconnect
    sessions,         \* sio.sessions holds the session
    created,          \* newConn has run
    wire,             \* what has been written to the sockets, in order
    nextSeq,          \* sequence number of the next enqueued payload
    nOnConnect,       \* calls of the application's connect callback
    nOnDisconnect,    \* calls of the application's disconnect callback
    nHandshake,       \* writes of the handshake frame
    ret,              \* error returned by the last Send or Close
    watch             \* whether ret is recorded

qvars ==
    <<mutex, socket, online, sinceDisconnected, lastHeartbeat, numHeartbeats,
      queue, queueClosed, numConns, handshaked, disconnected, wakeupFlusher,
      wakeupReader, connected, kind, hpc, didHandshake, kpc, fpc, buf,
      rpc, rsocket, closing, sessions, created, wire, nextSeq, nOnConnect,
      nOnDisconnect, nHandshake, ret, watch>>

VARIABLES
    m_mutex,          \* c.mutex: <<"free",0>> or the goroutine holding it
    m_socket,         \* c.socket: 0 is nil, i > 0 the socket of request i
    m_online,         \* c.online
    pendingHeartbeat, \* c.pendingHeartbeat
    m_queue,          \* c.queue
    flush,            \* c.flush: the content of the channel of capacity 1
    m_disconnected,   \* c.disconnected, and the channels being closed
    m_connected,      \* socket i is open
    transport,        \* the transport type of request i
    m_hpc,            \* position of the goroutine serving GET request i
    dbuf,             \* drain's buf, per request
    mpc,              \* position of machine
    m_numConns,       \* machine's numConns
    ticking,          \* machine waits in the select with the heartbeat ticker
    m_fpc,            \* position of flusher
    fres,             \* flusher's res: "nil" or "res", a channel of SendWait
    fsocket,          \* flusher's socket
    m_buf,            \* flusher's buf
    resReady,         \* the channel of SendWait holds the flusher's answer
    apc,              \* position of the application's handler goroutine
    ppc,              \* position of the goroutine serving the POST request
    payload,          \* the POST's payload
    timers,           \* heartbeat timeouts scheduled and not yet run
    tpc,              \* position of the running heartbeat timeout
    panicked,         \* a goroutine has panicked
    m_ret,            \* error returned by the last Send
    numBeats,         \* heartbeat ticks so far
    numInbound,       \* messages of the clients so far
    numSends,         \* payloads sent by the application so far
    m_msg,            \* the message Receive is about to ack
    m_recv,           \* error and message of the last return of Receive
    m_written,        \* payloads the flusher's last write delivered
    m_sessions        \* s.sessions holds the session

mvars ==
    <<m_mutex, m_socket, m_online, pendingHeartbeat, m_queue, flush,
      m_disconnected, m_connected, transport, m_hpc, dbuf, mpc, m_numConns,
      ticking, m_fpc, fres, fsocket, m_buf, resReady, apc, ppc, payload,
      timers, tpc, panicked, m_ret, numBeats, numInbound, numSends, m_msg,
      m_recv, m_written, m_sessions>>

VARIABLES
    cfgOrigins,       \* Config.Origins: nil, or the list of allowed origins,
    req,              \* the request: method, Origin header, isAuthorized's answer,
    spc,              \* position of SocketIO.handle,
    status,           \* the status written with w.WriteHeader, 0 if none,
    conn,             \* handle has created or looked up the session,
    pkt,              \* the message given to the Encoder,
    frames,           \* the '~m~' frames given to the sioDecoder,
    sent,             \* encoded bytes not yet written to the decoder,
    dec,              \* the Decoder's buffer,
    sio,              \* the sioDecoder: src, buf, length and state,
    decoded,          \* what each call of Decode so far has returned,
    chunks,           \* calls of dec.Write so far,
    cpc,              \* position of the codec's caller,
    rnd,              \* the bytes read from rand.Reader,
    sid,              \* the session id made of them,
    ipc               \* position of NewSessionID

pvars ==
    <<cfgOrigins, req, spc, status, conn, pkt, frames, sent, dec,
      sio, decoded, chunks, cpc, rnd, sid, ipc>>

vars == <<qvars, mvars, pvars>>

Sockets == 1..MaxSockets

\* Two of the v0.6 transports: xhr-polling closes the socket after one write;
\* the accept of websocket returns only once the socket is closed.
Kinds == {"xhr-polling", "websocket"}

Free == <<"free", 0>>

Payload(t, v) == [typ |-> t, seq |-> nextSeq, val |-> v]

\* What a client can send: a heartbeat reply or an application message.
Inbound == [typ : {"hb"}, val : 0..MaxHeartbeats] \cup {[typ |-> "msg", val |-> 0]}

(* Groups of variables, for the frame conditions. *)
chans == <<wakeupFlusher, wakeupReader, queueClosed>>
beats == <<lastHeartbeat, numHeartbeats>>
fvars == <<fpc, buf>>
rvars == <<rpc, rsocket>>
hvars == <<hpc, didHandshake, kind>>
calls == <<nOnConnect, nOnDisconnect, nHandshake>>

\* newConn: the zero Conn with its channels made.  c.lastDisconnected is 0,
\* so the time since it is beyond every timeout.
QInit ==
    /\ mutex = Free
    /\ socket = 0
    /\ online = FALSE
    /\ sinceDisconnected = ReconnectTimeout + 1
    /\ lastHeartbeat = 0
    /\ numHeartbeats = 0
    /\ queue = << >>
    /\ queueClosed = FALSE
    /\ numConns = 0
    /\ handshaked = FALSE
    /\ disconnected = FALSE
    /\ wakeupFlusher = "open"
    /\ wakeupReader = "open"
    /\ connected = [i \in Sockets |-> FALSE]
    /\ kind = [i \in Sockets |-> "xhr-polling"]
    /\ hpc = [i \in Sockets |-> "new"]
    /\ didHandshake = [i \in Sockets |-> FALSE]
    /\ kpc = "idle"
    /\ fpc = "idle"
    /\ buf = << >>
    /\ rpc = "idle"
    /\ rsocket = 0
    /\ closing = 0
    /\ sessions = FALSE
    /\ created = FALSE
    /\ wire = << >>
    /\ nextSeq = 1
    /\ nOnConnect = 0
    /\ nOnDisconnect = 0
    /\ nHandshake = 0
    /\ ret = "none"

\* A faulty variant of Return: every call reports success.
ReturnsNil(e) == ret' = IF watch THEN "nil" ELSE ret

\* The error an API call returns, recorded when the run watches results.
Return(e) == ret' = IF watch THEN e ELSE ret

\* A faulty variant of disconnect that leaves c.disconnected unset.
disconnectUnflagged ==
    /\ connected' = [connected EXCEPT ![socket] = FALSE]
    /\ disconnected' = disconnected
    /\ wakeupFlusher' = "closed"
    /\ wakeupReader' = "closed"
    /\ queueClosed' = TRUE

(* ---------------------------- Conn.disconnect -------------------------- *)
\* c.socket.Close(); c.disconnected = true; close of the three channels.
\* Always called with the mutex held.
disconnect ==
    /\ connected' = [connected EXCEPT ![socket] = FALSE]
    /\ disconnected' = TRUE
    /\ wakeupFlusher' = "closed"
    /\ wakeupReader' = "closed"
    /\ queueClosed' = TRUE

\* A faulty variant of QueueHasRoom: a channel of capacity QueueLength + 1.
QueueHasRoomForOneMore == Len(queue) <= QueueLength

(* ------------------------------ Conn.Send ------------------------------ *)
\* The non-blocking send on the buffered channel succeeds when it has room.
QueueHasRoom == Len(queue) < QueueLength

\* The application holds the session once its connect callback has run.
Send ==
    /\ nOnConnect > 0
    /\ mutex = Free
    /\ disconnected \/ ~QueueHasRoom \/ nextSeq <= MaxSeq
    /\ IF disconnected
         THEN /\ Return("ErrDestroyed")
              /\ UNCHANGED <<queue, nextSeq>>
         ELSE IF QueueHasRoom
           THEN /\ queue' = Append(queue, Payload("msg", 0))
                /\ nextSeq' = nextSeq + 1
                /\ Return("nil")
           ELSE /\ Return("ErrQueueFull")
                /\ UNCHANGED <<queue, nextSeq>>
    /\ UNCHANGED <<mutex, socket, online, sinceDisconnected, beats, chans,
                   numConns, handshaked, disconnected, connected, hvars,
                   kpc, fvars, rvars, closing, sessions, created, wire,
                   calls, watch, mvars, pvars>>

(* ------------------------------ Conn.Close ----------------------------- *)
\* Lines 106-114: under the mutex, refuse when disconnected, else disconnect.
Close ==
    /\ nOnConnect > 0
    /\ mutex = Free
    /\ IF disconnected
         THEN /\ Return("ErrNotConnected")
              /\ UNCHANGED <<connected, disconnected, chans, closing>>
         ELSE /\ disconnect
              /\ closing' = closing + 1
              /\ UNCHANGED ret
    /\ UNCHANGED <<mutex, socket, online, sinceDisconnected, beats, queue,
                   numConns, handshaked, hvars, kpc, fvars, rvars,
                   sessions, created, wire, nextSeq, calls, watch, mvars, pvars>>

\* Lines 116-117: sio.onDisconnect(c) outside the mutex, then return nil.
CloseOnDisconnect ==
    /\ closing > 0
    /\ closing' = closing - 1
    /\ sessions' = FALSE
    /\ nOnDisconnect' = nOnDisconnect + 1
    /\ Return("nil")
    /\ UNCHANGED <<mutex, socket, online, sinceDisconnected, beats, queue,
                   chans, numConns, handshaked, disconnected, connected, hvars,
                   kpc, fvars, rvars, created, wire, nextSeq, nOnConnect,
                   nHandshake, watch, mvars, pvars>>

(* ----------------------------- Conn.receive ---------------------------- *)
\* A heartbeat sets c.lastHeartbeat; anything else goes to sio.onMessage.
receive(d) ==
    lastHeartbeat' = IF d.typ = "hb" THEN d.val ELSE lastHeartbeat

(* ---------------------------- Conn.keepalive --------------------------- *)
\* t-c.lastDisconnected > c.sio.config.ReconnectTimeout, t the tick's time.
ReconnectTimedOut == ~online /\ sinceDisconnected > ReconnectTimeout

HeartbeatMissed == lastHeartbeat < numHeartbeats

\* One iteration of the loop over c.ticker.C (lines 246-272).
KeepaliveTick ==
    /\ kpc = "tick"
    /\ mutex = Free
    /\ \/ disconnected
       \/ ReconnectTimedOut
       \/ HeartbeatMissed
       \/ numHeartbeats < MaxHeartbeats /\ (nextSeq <= MaxSeq \/ ~QueueHasRoom)
    /\ IF disconnected
         THEN /\ kpc' = "done"
              /\ UNCHANGED <<numHeartbeats, queue, nextSeq, connected,
                             disconnected, chans>>
         ELSE IF ReconnectTimedOut \/ HeartbeatMissed
           THEN /\ disconnect
                /\ kpc' = "onDisconnect"
                /\ UNCHANGED <<numHeartbeats, queue, nextSeq>>
           ELSE /\ numHeartbeats' = numHeartbeats + 1
                /\ IF QueueHasRoom
                     THEN /\ queue' = Append(queue, Payload("hb", numHeartbeats + 1))
                          /\ nextSeq' = nextSeq + 1
                          /\ UNCHANGED <<kpc, connected, disconnected, chans>>
                     ELSE /\ disconnect
                          /\ kpc' = "onDisconnect"
                          /\ UNCHANGED <<queue, nextSeq>>
    /\ UNCHANGED <<mutex, socket, online, sinceDisconnected, lastHeartbeat,
                   numConns, handshaked, hvars, fvars, rvars, closing,
                   sessions, created, wire, calls, ret, watch, mvars, pvars>>

\* Line 274: sio.onDisconnect(c) after the loop was left by break.
KeepaliveOnDisconnect ==
    /\ kpc = "onDisconnect"
    /\ kpc' = "done"
    /\ sessions' = FALSE
    /\ nOnDisconnect' = nOnDisconnect + 1
    /\ UNCHANGED <<mutex, socket, online, sinceDisconnected, beats, queue,
                   chans, numConns, handshaked, disconnected, connected, hvars,
                   fvars, rvars, closing, created, wire, nextSeq, nOnConnect,
                   nHandshake, ret, watch, mvars, pvars>>

\* The clock advances by one tick.
Tick ==
    /\ sinceDisconnected <= ReconnectTimeout
    /\ sinceDisconnected' = sinceDisconnected + 1
    /\ UNCHANGED <<mutex, socket, online, beats, queue, chans,
                   numConns, handshaked, disconnected, connected, hvars, kpc,
                   fvars, rvars, closing, sessions, created, wire, nextSeq,
                   calls, ret, watch, mvars, pvars>>

\* A faulty variant of Routed: the table is not consulted.
RoutedAlways == TRUE

(* ------------------------------ Conn.handle ---------------------------- *)
\* sio.handle: a request without session id creates the session (newConn);
\* one with a session id is served only if GetConn finds the session.
Routed == IF created THEN sessions ELSE TRUE

\* Socket.Write on a connected socket closes it when the transport polls.
StaysOpen(i) == kind[i] # "xhr-polling"

\* The proceed callback of a first attachment up to the handshake (lines
\* 152-160): the socket is stored and handle, the mutex held since line
\* 126, goes on to write the handshake to it.
ProceedFirst(i) ==
    /\ connected' = [j \in Sockets |->
          IF j = i THEN TRUE ELSE IF j = socket THEN FALSE ELSE connected[j]]
    /\ mutex' = <<"handle", i>>
    /\ hpc' = [hpc EXCEPT ![i] = "handshake"]
    /\ UNCHANGED <<handshaked, didHandshake, kpc, fpc, rpc, numConns,
                   nHandshake>>

\* The proceed callback of a re-attachment (lines 152-157, 176-190): the two
\* wakeups are non-blocking sends on unbuffered channels, received only by a
\* goroutine that is blocked in the receive.  accept then returns, and line
\* 199 unlocks, unless the transport is websocket: its accept blocks in
\* <-s.close with the mutex still held.
ProceedAgain(i, k) ==
    /\ connected' = [j \in Sockets |->
          IF j = i THEN TRUE ELSE IF j = socket THEN FALSE ELSE connected[j]]
    /\ numConns' = numConns + 1
    /\ fpc' = IF fpc = "wakeup" THEN "write" ELSE fpc
    /\ rpc' = IF rpc = "wakeup" THEN "getsock" ELSE rpc
    /\ IF k = "websocket"
         THEN /\ hpc' = [hpc EXCEPT ![i] = "accepted"]
              /\ mutex' = <<"handle", i>>
         ELSE /\ hpc' = [hpc EXCEPT ![i] = "done"]
              /\ mutex' = Free
    /\ UNCHANGED <<handshaked, didHandshake, kpc, nHandshake>>

\* Conn.handle for a GET of transport k (lines 126-131, 148-202).  res is
\* "refused" (the session is disconnected), "acceptError" (s.accept fails
\* before it calls proceed) or "ok".
HandleGet(i, k, res) ==
    /\ hpc[i] = "new"
    /\ \A j \in 1..(i - 1) : hpc[j] # "new"
    /\ Routed
    /\ mutex = Free
    /\ created' = TRUE
    /\ kind' = [kind EXCEPT ![i] = k]
    /\ IF disconnected \/ res = "acceptError"
         THEN /\ res = IF disconnected THEN "refused" ELSE "acceptError"
              /\ hpc' = [hpc EXCEPT ![i] = "done"]
              /\ UNCHANGED <<mutex, socket, online, connected, handshaked,
                             didHandshake, kpc, fpc, rpc, numConns,
                             nHandshake>>
         ELSE /\ socket' = i
              /\ online' = TRUE
              /\ IF ~handshaked
                   THEN res = "ok" /\ ProceedFirst(i)
                   ELSE res = "ok" /\ ProceedAgain(i, k)
    /\ UNCHANGED <<sinceDisconnected, beats, queue, chans, disconnected, buf,
                   rsocket, closing, sessions, wire, nextSeq, nOnConnect,
                   nOnDisconnect, ret, watch, mvars, pvars>>

\* Lines 160-193: c.handshake() writes the handshake to the socket, the
\* mutex held, ok being the outcome of the write.  After the handshake the
\* goroutines are started and the mutex is released (line 193); after a
\* failed one proceed returns, accept returns as the socket is closed, and
\* line 199 unlocks.
HandleHandshake(i, ok) ==
    /\ hpc[i] = "handshake"
    /\ nHandshake' = nHandshake + 1
    /\ mutex' = Free
    /\ IF ok
         THEN /\ connected' = [connected EXCEPT ![i] = StaysOpen(i)]
              /\ handshaked' = TRUE
              /\ didHandshake' = [didHandshake EXCEPT ![i] = TRUE]
              /\ kpc' = "tick"
              /\ fpc' = "range"
              /\ rpc' = "getsock"
              /\ numConns' = numConns + 1
              /\ hpc' = [hpc EXCEPT ![i] = "onConnect"]
         ELSE /\ connected' = [connected EXCEPT ![i] = FALSE]
              /\ hpc' = [hpc EXCEPT ![i] = "done"]
              /\ UNCHANGED <<handshaked, didHandshake, kpc, fpc, rpc, numConns>>
    /\ UNCHANGED <<socket, online, sinceDisconnected, beats, queue, chans,
                   disconnected, kind, buf, rsocket, closing, sessions,
                   created, wire, nextSeq, nOnConnect, nOnDisconnect, ret,
                   watch, mvars, pvars>>

\* Line 194: sio.onConnect(c) stores the session and calls the application;
\* then proceed returns and the accept of websocket blocks in <-s.close.
HandleOnConnect(i) ==
    /\ hpc[i] = "onConnect"
    /\ hpc' = [hpc EXCEPT ![i] = IF kind[i] = "websocket" THEN "accepted" ELSE "done"]
    /\ sessions' = TRUE
    /\ nOnConnect' = nOnConnect + 1
    /\ UNCHANGED <<mutex, socket, online, sinceDisconnected, beats, queue,
                   chans, numConns, handshaked, disconnected, connected,
                   didHandshake, kind, kpc, fvars, rvars, closing, created,
                   wire, nextSeq, nOnDisconnect, nHandshake, ret, watch, mvars, pvars>>

\* The accept of websocket returns once the socket was closed; lines 198-200
\* then unlock if this request did not do the handshake.
HandleReturn(i) ==
    /\ hpc[i] = "accepted"
    /\ ~connected[i]
    /\ hpc' = [hpc EXCEPT ![i] = "done"]
    /\ mutex' = IF didHandshake[i] THEN mutex ELSE Free
    /\ UNCHANGED <<socket, online, sinceDisconnected, beats, queue, chans,
                   numConns, handshaked, disconnected, connected,
                   didHandshake, kind, kpc, fvars, rvars, closing, sessions,
                   created, wire, nextSeq, calls, ret, watch, mvars, pvars>>

\* Lines 126-146: a POST checks disconnected under the mutex, releases it
\* and feeds the data field to receive.
HandlePost(d) ==
    /\ created /\ sessions
    /\ mutex = Free
    /\ IF disconnected THEN UNCHANGED lastHeartbeat ELSE receive(d)
    /\ UNCHANGED <<mutex, socket, online, sinceDisconnected, numHeartbeats,
                   queue, chans, numConns, handshaked, disconnected, connected,
                   hvars, kpc, fvars, rvars, closing, sessions, created,
                   wire, nextSeq, calls, ret, watch, mvars, pvars>>

(* ------------------------------ Conn.reader ---------------------------- *)
\* Lines 349-351: capture c.socket under the mutex.
ReaderCapture ==
    /\ rpc = "getsock"
    /\ mutex = Free
    /\ rsocket' = socket
    /\ rpc' = "read"
    /\ UNCHANGED <<mutex, socket, online, sinceDisconnected, beats, queue,
                   chans, numConns, handshaked, disconnected, connected, hvars,
                   kpc, fvars, closing, sessions, created, wire, nextSeq,
                   calls, ret, watch, mvars, pvars>>

\* Lines 354, 367-368: a read that returns bytes; the reader calls receive
\* with them, without the mutex.
ReaderReceive(d) ==
    /\ rpc = "read"
    /\ connected[rsocket]
    /\ receive(d)
    /\ rpc' = "receive"
    /\ UNCHANGED <<mutex, socket, online, sinceDisconnected, numHeartbeats,
                   queue, chans, numConns, handshaked, disconnected, connected,
                   hvars, kpc, fvars, rsocket, closing, sessions, created,
                   wire, nextSeq, calls, ret, watch, mvars, pvars>>

\* Line 368: receive returns and the reader goes back to Read.
ReaderReceived ==
    /\ rpc = "receive"
    /\ rpc' = "read"
    /\ UNCHANGED <<mutex, socket, online, sinceDisconnected, beats, queue,
                   chans, numConns, handshaked, disconnected, connected, hvars,
                   kpc, fvars, rsocket, closing, sessions, created, wire,
                   nextSeq, calls, ret, watch, mvars, pvars>>

\* Lines 355-364 and 372-378: a read fails (ErrNotConnected on a closed
\* socket, else EOF or a timeout, after which the empty response is
\* written); then, under the mutex, the reader stamps c.lastDisconnected,
\* closes the captured socket and goes offline if that socket is still the
\* session's.
ReaderLost ==
    /\ rpc = "read"
    /\ mutex = Free
    /\ sinceDisconnected' = 0
    /\ connected' = [connected EXCEPT ![rsocket] = FALSE]
    /\ online' = IF socket = rsocket THEN FALSE ELSE online
    /\ rpc' = "lost"
    /\ UNCHANGED <<mutex, socket, beats, queue, chans, numConns, handshaked,
                   disconnected, hvars, kpc, fvars, rsocket, closing,
                   sessions, created, wire, nextSeq, calls, ret, watch, mvars, pvars>>

\* A faulty variant of ReaderWait that takes the receive on the closed
\* channel for a wakeup and goes round the loop again.
ReaderWaitIgnoringClose ==
    /\ rpc = "lost"
    /\ rpc' = IF wakeupReader = "closed" THEN "getsock" ELSE "wakeup"
    /\ UNCHANGED <<mutex, socket, online, sinceDisconnected, beats, queue,
                   chans, numConns, handshaked, disconnected, connected, hvars,
                   kpc, fvars, rsocket, closing, sessions, created, wire,
                   nextSeq, calls, ret, watch, mvars, pvars>>

\* Lines 380-382: the reader blocks in the receive on c.wakeupReader; on the
\* closed channel the receive returns at once and ends the reader.
ReaderWait ==
    /\ rpc = "lost"
    /\ rpc' = IF wakeupReader = "closed" THEN "done" ELSE "wakeup"
    /\ UNCHANGED <<mutex, socket, online, sinceDisconnected, beats, queue,
                   chans, numConns, handshaked, disconnected, connected, hvars,
                   kpc, fvars, rsocket, closing, sessions, created, wire,
                   nextSeq, calls, ret, watch, mvars, pvars>>

\* The close of c.wakeupReader ends a reader blocked in the receive.
ReaderExit ==
    /\ rpc = "wakeup"
    /\ wakeupReader = "closed"
    /\ rpc' = "done"
    /\ UNCHANGED <<mutex, socket, online, sinceDisconnected, beats, queue,
                   chans, numConns, handshaked, disconnected, connected, hvars,
                   kpc, fvars, rsocket, closing, sessions, created, wire,
                   nextSeq, calls, ret, watch, mvars, pvars>>

(* ------------------------------ Conn.flusher --------------------------- *)
\* The zero value a receive on the closed, empty queue yields; the encoder
\* writes it as a JSON null.
Null == [typ |-> "null", seq |-> 0, val |-> 0]

\* Lines 300-312: after the first payload DrainLoop adds what the queue
\* holds while n is below QueueLength; a closed and empty queue keeps
\* yielding the zero value.
Drained == SubSeq(queue, 1, IF Len(queue) < QueueLength THEN Len(queue) ELSE QueueLength)

Padding ==
    IF queueClosed /\ Len(Drained) < QueueLength
      THEN [j \in 1..(QueueLength - Len(Drained)) |-> Null]
      ELSE << >>

\* Lines 293-313: the range over c.queue takes a payload and DrainLoop the
\* rest of the batch; both shipped encoders never fail on a bytes.Buffer.
FlusherTake ==
    /\ fpc = "range"
    /\ queue # << >>
    /\ buf' = Drained \o Padding
    /\ queue' = SubSeq(queue, Len(Drained) + 1, Len(queue))
    /\ fpc' = "write"
    /\ UNCHANGED <<mutex, socket, online, sinceDisconnected, beats, chans,
                   numConns, handshaked, disconnected, connected, hvars,
                   kpc, rvars, closing, sessions, created, wire, nextSeq,
                   calls, ret, watch, mvars, pvars>>

\* Line 333: after a failed write the flusher blocks in the receive on
\* c.wakeupFlusher.
FlusherWait ==
    /\ fpc = "failed"
    /\ fpc' = "wakeup"
    /\ UNCHANGED <<mutex, socket, online, sinceDisconnected, beats, queue,
                   chans, numConns, handshaked, disconnected, connected, hvars,
                   kpc, buf, rvars, closing, sessions, created, wire,
                   nextSeq, calls, ret, watch, mvars, pvars>>

\* Line 293: the range ends when the queue is closed and empty; line 333:
\* the receive on the closed c.wakeupFlusher ends the flusher.
FlusherExit ==
    /\ \/ fpc = "range" /\ queue = << >> /\ queueClosed
       \/ fpc = "wakeup" /\ wakeupFlusher = "closed"
    /\ fpc' = "done"
    /\ UNCHANGED <<mutex, socket, online, sinceDisconnected, beats, queue,
                   chans, numConns, handshaked, disconnected, connected, hvars,
                   kpc, buf, rvars, closing, sessions, created, wire,
                   nextSeq, calls, ret, watch, mvars, pvars>>

\* A faulty variant of Written: the write sends the end of the batch.
WrittenFromTail(w) == SubSeq(buf, Len(buf) - w + 1, Len(buf))

\* What reaches the socket of a write that delivers w payloads.
Written(w) == SubSeq(buf, 1, w)

\* The count Socket.Write returns includes the framing the transport adds
\* (the HTTP header of xhr-polling), so a failed write can take more off buf
\* than it delivered.
CountsFraming(i) == kind[i] # "websocket"

\* Line 321: the flusher locks the mutex for the write.
FlusherLock ==
    /\ fpc = "write"
    /\ mutex = Free
    /\ mutex' = <<"flusher", 0>>
    /\ fpc' = "locked"
    /\ UNCHANGED <<socket, online, sinceDisconnected, beats, queue, chans,
                   numConns, handshaked, disconnected, connected, hvars,
                   kpc, buf, rvars, closing, sessions, created, wire,
                   nextSeq, calls, ret, watch, mvars, pvars>>

\* Lines 322-330: buf.WriteTo(c.socket) under the mutex, and the unlock.
\* w payloads of the batch reach the socket and k leave buf; err is "nil"
\* (all written), "EAGAIN" (retry at once) or "error" (wait for a wakeup).
\* A closed socket takes nothing, and an empty buf makes no call of
\* Socket.Write.
FlusherWrite(k, w, err) ==
    /\ fpc = "locked"
    /\ mutex' = Free
    /\ w <= k /\ k <= Len(buf)
    /\ IF buf = << >>
         THEN err = "nil"
         ELSE IF connected[socket]
           THEN IF err = "nil"
                  THEN w = Len(buf)
                  ELSE w < Len(buf) /\ (CountsFraming(socket) \/ k = w)
           ELSE k = 0 /\ err = "error"
    /\ wire' = wire \o Written(w)
    /\ buf' = SubSeq(buf, k + 1, Len(buf))
    /\ connected' = IF buf # << >> /\ connected[socket] /\ ~StaysOpen(socket)
                      THEN [connected EXCEPT ![socket] = FALSE]
                      ELSE connected
    /\ fpc' = CASE err = "nil" -> "range"
                [] err = "EAGAIN" -> "write"
                [] OTHER -> "failed"
    /\ UNCHANGED <<socket, online, sinceDisconnected, beats, queue,
                   chans, numConns, handshaked, disconnected, hvars, kpc,
                   rvars, closing, sessions, created, nextSeq, calls, ret,
                   watch, mvars, pvars>>

(* ----------------------- the steps of the session --------------------- *)
QNext ==
    \/ Send
    \/ Close
    \/ CloseOnDisconnect
    \/ KeepaliveTick
    \/ KeepaliveOnDisconnect
    \/ Tick
    \/ \E i \in Sockets, k \in Kinds :
         \E res \in {"ok", "refused", "acceptError"} : HandleGet(i, k, res)
    \/ \E i \in Sockets, ok \in BOOLEAN : HandleHandshake(i, ok)
    \/ \E i \in Sockets : HandleOnConnect(i)
    \/ \E i \in Sockets : HandleReturn(i)
    \/ \E d \in Inbound : HandlePost(d)
    \/ ReaderCapture
    \/ \E d \in Inbound : ReaderReceive(d)
    \/ ReaderReceived
    \/ ReaderLost
    \/ ReaderWait
    \/ ReaderExit
    \/ FlusherTake
    \/ FlusherWait
    \/ FlusherExit
    \/ FlusherLock
    \/ \E k \in 0..QueueLength, w \in 0..QueueLength :
         \E err \in {"nil", "EAGAIN", "error"} : FlusherWrite(k, w, err)

(* ======================================================================= *)
(*                  Part II: the machine-based session                     *)
(* ======================================================================= *)

\* The message types (src/message.go, lines 10-20).
MessageTypes ==
    {"disconnect", "connect", "heartbeat", "text", "json", "event", "ack",
     "error", "noop"}

\* A decoded message: its type, its id and whether a '+' follows the id
\* (decodePacket, src/unnamed/part_007, lines 187-222).
Msg(t, id, plus) == [typ |-> t, id |-> id, ack |-> plus]

\* No message: an empty buffer, a zeroed Message.
NoMessage == Msg("none", 0, FALSE)

\* Conn.disconnected is set, and the five channels are closed, by the one
\* deferred function of machine, under the mutex: m_disconnected stands for
\* the flag and for the channels being closed.  serve has stored the new
\* session in s.sessions (src/cli/cli.go, line 199) before it answers the
\* client.
MInit ==
    /\ m_sessions = TRUE
    /\ m_mutex = Free
    /\ m_socket = 0
    /\ m_online = FALSE
    /\ pendingHeartbeat = FALSE
    /\ m_queue = << >>
    /\ flush = << >>
    /\ m_disconnected = FALSE
    /\ m_connected = [i \in Sockets |-> FALSE]
    /\ transport = [i \in Sockets |-> "polling"]
    /\ m_hpc = [i \in Sockets |-> "new"]
    /\ dbuf = [i \in Sockets |-> NoMessage]
    /\ mpc = "select"
    /\ m_numConns = 0
    /\ ticking = FALSE
    /\ m_fpc = "idle"
    /\ fres = "nil"
    /\ fsocket = 0
    /\ m_buf = << >>
    /\ resReady = FALSE
    /\ apc = "idle"
    /\ ppc = "new"
    /\ payload = NoMessage
    /\ m_msg = NoMessage
    /\ m_written = << >>
    /\ m_recv = [err |-> "none", msg |-> NoMessage]
    /\ timers = 0
    /\ tpc = "idle"
    /\ panicked = FALSE
    /\ m_ret = "none"
    /\ numBeats = 0
    /\ numInbound = 0
    /\ numSends = 0

\* The two transport types (src/unnamed/part_010).
TransportTypes == {"polling", "streaming"}

\* What decodePacket can produce: the type is a number from 0 to 9, 9 being
\* no message type; an id that is not a number, and a '+' with no id before
\* it, decode to the id -1.
AllMessages ==
    [typ : MessageTypes \cup {"unknown"}, id : -1 .. MaxId, ack : BOOLEAN]

\* What a client sends in the runs of the whole session: a heartbeat
\* reply, a disconnect or a text message, without an id.
Messages ==
    {Msg("heartbeat", 0, FALSE), Msg("disconnect", 0, FALSE),
     Msg("text", 0, FALSE)}

\* The ack Receive dispatches for the message of id n.
Ack(n) == "ack:" \o ToString(n)

\* A payload the decoder rejects: decodePacket finds fewer than three
\* parts in it, or a type that is no number.
Undecodable == Msg("invalid", 0, FALSE)

\* The positions of the application's handler between two calls: Receive
\* returned a message, os.EOF, or the decoder's error.
Handling == {"idle", "eof", "failed"}

\* What Receive returned, recorded when the run watches results.
MReceived(e, d) ==
    m_recv' = IF watch THEN [err |-> e, msg |-> d] ELSE m_recv

\* Socket.Close on socket s; c.socket is nil when s = 0.
Closed(s) == [j \in Sockets |-> IF j = s THEN FALSE ELSE m_connected[j]]

\* The non-blocking send of nil on c.flush, a channel of capacity 1.
Flushed == IF Len(flush) < 1 THEN Append(flush, "nil") ELSE flush

\* A queued payload: the disconnect message and the acks are told from
\* the others.
Queued(data) ==
    IF data \in {"connect", "heartbeat", "text", "noop"}
      THEN "payload"
      ELSE data

\* Conn.dispatch (lines 155-161), called with the mutex held.
dispatch(data) ==
    /\ m_queue' = Append(m_queue, Queued(data))
    /\ flush' = Flushed

(* ------------------------------ Conn.machine --------------------------- *)
\* c.transport.Type of the attached transport, as line 337 reads it.
Streaming == m_socket # 0 /\ transport[m_socket] = "streaming"

\* Lines 320-333: machine receives from c.connect the send of the handler
\* blocked at line 215, which then unlocks (line 216) and drains.  On the
\* first connection machine starts the flusher and goes on to
\* c.Send(connect("")); on a later one it wakes the flusher and enters the
\* Connected loop.
MConnect(i) ==
    /\ ~panicked
    /\ mpc = "select"
    /\ m_hpc[i] = "connect"
    /\ m_online' = TRUE
    /\ m_numConns' = m_numConns + 1
    /\ m_hpc' = [m_hpc EXCEPT ![i] = "drain"]
    /\ m_mutex' = Free
    /\ IF m_numConns = 0
         THEN /\ m_fpc' = "range"
              /\ mpc' = "send"
              /\ UNCHANGED <<flush, ticking>>
         ELSE /\ flush' = Flushed
              /\ mpc' = "connected"
              /\ ticking' = Streaming
              /\ UNCHANGED m_fpc
    /\ UNCHANGED <<qvars, pvars, m_socket, pendingHeartbeat, m_queue,
                   m_disconnected, m_connected, transport, dbuf, fres,
                   fsocket, m_buf, resReady, apc, ppc, payload, timers, tpc,
                   panicked, m_ret, numBeats, numInbound, numSends, m_msg,
                   m_recv, m_written, m_sessions>>

\* Line 327: c.Send(connect("")), then the first test of line 337.
MSendConnect ==
    /\ ~panicked
    /\ mpc = "send"
    /\ m_mutex = Free
    /\ IF m_disconnected
         THEN UNCHANGED <<m_queue, flush>>
         ELSE dispatch("connect")
    /\ mpc' = "connected"
    /\ ticking' = Streaming
    /\ UNCHANGED <<qvars, pvars, m_mutex, m_socket, m_online,
                   pendingHeartbeat, m_disconnected, m_connected, transport,
                   m_hpc, dbuf, m_numConns, m_fpc, fres, fsocket, m_buf,
                   resReady, apc, ppc, payload, timers, tpc, panicked, m_ret,
                   numBeats, numInbound, numSends, m_msg, m_recv, m_written,
                   m_sessions>>

\* Lines 338 and 342, 365: machine receives from c.disconnect the send of
\* the handler whose drain returned (line 218) and goes offline.
MDisconnect(i) ==
    /\ ~panicked
    /\ mpc = "connected"
    /\ m_hpc[i] = "disconnect"
    /\ ~m_disconnected
    /\ m_hpc' = [m_hpc EXCEPT ![i] = "done"]
    /\ m_online' = FALSE
    /\ mpc' = "select"
    /\ ticking' = FALSE
    /\ UNCHANGED <<qvars, pvars, m_mutex, m_socket, pendingHeartbeat,
                   m_queue, flush, m_disconnected, m_connected, transport,
                   dbuf, m_numConns, m_fpc, fres, fsocket, m_buf, resReady,
                   apc, ppc, payload, timers, tpc, panicked, m_ret, numBeats,
                   numInbound, numSends, m_msg, m_recv, m_written,
                   m_sessions>>

\* Line 345: the heartbeat ticker fires in the select of a streaming
\* transport.  wait starts a new ticker at each select (lines 304-310), so
\* a handler already sending on c.disconnect is served first.
MTick ==
    /\ ~panicked
    /\ mpc = "connected"
    /\ ticking
    /\ \A i \in Sockets : m_hpc[i] # "disconnect"
    /\ numBeats < MaxBeats
    /\ numBeats' = numBeats + 1
    /\ mpc' = "tick"
    /\ UNCHANGED <<qvars, pvars, m_mutex, m_socket, m_online,
                   pendingHeartbeat, m_queue, flush, m_disconnected,
                   m_connected, transport, m_hpc, dbuf, m_numConns, ticking,
                   m_fpc, fres, fsocket, m_buf, resReady, apc, ppc, payload,
                   timers, tpc, panicked, m_ret, numInbound, numSends, m_msg,
                   m_recv, m_written, m_sessions>>

\* Lines 347-350: under the mutex the heartbeat is marked pending and
\* dispatched.
MHeartbeat ==
    /\ ~panicked
    /\ mpc = "tick"
    /\ m_mutex = Free
    /\ pendingHeartbeat' = TRUE
    /\ dispatch("heartbeat")
    /\ mpc' = "arm"
    /\ UNCHANGED <<qvars, pvars, m_mutex, m_socket, m_online, m_disconnected,
                   m_connected, transport, m_hpc, dbuf, m_numConns, ticking,
                   m_fpc, fres, fsocket, m_buf, resReady, apc, ppc, payload,
                   timers, tpc, panicked, m_ret, numBeats, numInbound,
                   numSends, m_msg, m_recv, m_written, m_sessions>>

\* Line 351: the mutex released, time.AfterFunc schedules the timeout;
\* line 337 runs again.
MArmTimeout ==
    /\ ~panicked
    /\ mpc = "arm"
    /\ timers' = timers + 1
    /\ mpc' = "connected"
    /\ ticking' = Streaming
    /\ UNCHANGED <<qvars, pvars, m_mutex, m_socket, m_online,
                   pendingHeartbeat, m_queue, flush, m_disconnected,
                   m_connected, transport, m_hpc, dbuf, m_numConns, m_fpc,
                   fres, fsocket, m_buf, resReady, apc, ppc, payload, tpc,
                   panicked, m_ret, numBeats, numInbound, numSends, m_msg,
                   m_recv, m_written, m_sessions>>

\* Lines 352-357: the timeout scheduled by time.AfterFunc.  With the
\* heartbeat still pending it closes the socket and blocks in the send on
\* c.shutdown, the mutex held.
MTimeout ==
    /\ ~panicked
    /\ timers > 0
    /\ tpc = "idle"
    /\ m_mutex = Free
    /\ timers' = timers - 1
    /\ IF pendingHeartbeat
         THEN /\ m_connected' = Closed(m_socket)
              /\ tpc' = "shutdown"
              /\ m_mutex' = <<"timer", 0>>
         ELSE UNCHANGED <<m_connected, tpc, m_mutex>>
    /\ UNCHANGED <<qvars, pvars, m_socket, m_online, pendingHeartbeat,
                   m_queue, flush, m_disconnected, transport, m_hpc, dbuf,
                   mpc, m_numConns, ticking, m_fpc, fres, fsocket, m_buf,
                   resReady, apc, ppc, payload, panicked, m_ret, numBeats,
                   numInbound, numSends, m_msg, m_recv, m_written,
                   m_sessions>>

\* Lines 316-318: machine receives from c.shutdown the send of the timeout
\* (line 357), which returns and unlocks.
MShutdownTimeout ==
    /\ ~panicked
    /\ mpc = "select"
    /\ tpc = "shutdown"
    /\ tpc' = "idle"
    /\ m_mutex' = Free
    /\ mpc' = "shutdown"
    /\ UNCHANGED <<qvars, pvars, m_socket, m_online, pendingHeartbeat,
                   m_queue, flush, m_disconnected, m_connected, transport,
                   m_hpc, dbuf, m_numConns, ticking, m_fpc, fres, fsocket,
                   m_buf, resReady, apc, ppc, payload, timers, panicked,
                   m_ret, numBeats, numInbound, numSends, m_msg, m_recv,
                   m_written, m_sessions>>

\* Lines 316-318: machine receives the send of Receive (line 87), which
\* unlocks and returns os.EOF.
MShutdownReceive ==
    /\ ~panicked
    /\ mpc = "select"
    /\ apc = "shutdown"
    /\ apc' = "eof"
    /\ MReceived("EOF", NoMessage)
    /\ m_mutex' = Free
    /\ mpc' = "shutdown"
    /\ UNCHANGED <<qvars, pvars, m_socket, m_online, pendingHeartbeat,
                   m_queue, flush, m_disconnected, m_connected, transport,
                   m_hpc, dbuf, m_numConns, ticking, m_fpc, fres, fsocket,
                   m_buf, resReady, ppc, payload, timers, tpc, panicked,
                   m_ret, numBeats, numInbound, numSends, m_msg, m_written,
                   m_sessions>>

\* Lines 316-318: machine receives the send of close (line 171).
MShutdownClose ==
    /\ ~panicked
    /\ mpc = "select"
    /\ apc = "closing"
    /\ ~m_disconnected
    /\ apc' = "done"
    /\ mpc' = "shutdown"
    /\ UNCHANGED <<qvars, pvars, m_mutex, m_socket, m_online,
                   pendingHeartbeat, m_queue, flush, m_disconnected,
                   m_connected, transport, m_hpc, dbuf, m_numConns, ticking,
                   m_fpc, fres, fsocket, m_buf, resReady, ppc, payload,
                   timers, tpc, panicked, m_ret, numBeats, numInbound,
                   numSends, m_msg, m_recv, m_written, m_sessions>>

\* A goroutine is blocked in a send on c.shutdown or on c.connect.
Sending ==
    \/ tpc = "shutdown"
    \/ apc \in {"shutdown", "closing"}
    \/ \E i \in Sockets : m_hpc[i] = "connect"

\* Lines 368-370: the CloseTimeout ticker fires in the outer select.  wait
\* starts a new ticker at each select (lines 304-310), so a send that is
\* already waiting is served first.
MCloseTimeout ==
    /\ ~panicked
    /\ mpc = "select"
    /\ ~Sending
    /\ mpc' = "timeout"
    /\ UNCHANGED <<qvars, pvars, m_mutex, m_socket, m_online,
                   pendingHeartbeat, m_queue, flush, m_disconnected,
                   m_connected, transport, m_hpc, dbuf, m_numConns, ticking,
                   m_fpc, fres, fsocket, m_buf, resReady, apc, ppc, payload,
                   timers, tpc, panicked, m_ret, numBeats, numInbound,
                   numSends, m_msg, m_recv, m_written, m_sessions>>

\* Lines 288-301: the deferred function of machine, run when machine
\* returns at line 318 or at line 370.
MTeardown ==
    /\ ~panicked
    /\ mpc \in {"shutdown", "timeout"}
    /\ m_mutex = Free
    /\ m_disconnected' = TRUE
    /\ m_online' = FALSE
    /\ pendingHeartbeat' = FALSE
    /\ m_socket' = 0
    /\ mpc' = "done"
    /\ UNCHANGED <<qvars, pvars, m_mutex, m_queue, flush, m_connected,
                   transport, m_hpc, dbuf, m_numConns, ticking, m_fpc, fres,
                   fsocket, m_buf, resReady, apc, ppc, payload, timers, tpc,
                   panicked, m_ret, numBeats, numInbound, numSends, m_msg,
                   m_recv, m_written, m_sessions>>

\* A goroutine blocked in a send on a channel panics when the channel is
\* closed: close at line 171, a POST at line 195, a handler at line 218.
MPanic ==
    /\ ~panicked
    /\ m_disconnected
    /\ \/ apc = "closing"
       \/ ppc = "incoming"
       \/ \E i \in Sockets : m_hpc[i] = "disconnect"
    /\ panicked' = TRUE
    /\ UNCHANGED <<qvars, pvars, m_mutex, m_socket, m_online,
                   pendingHeartbeat, m_queue, flush, m_disconnected,
                   m_connected, transport, m_hpc, dbuf, mpc, m_numConns,
                   ticking, m_fpc, fres, fsocket, m_buf, resReady, apc, ppc,
                   payload, timers, tpc, m_ret, numBeats, numInbound,
                   numSends, m_msg, m_recv, m_written, m_sessions>>

\* A faulty variant of Refused: handle does not look at c.disconnected.
RefusedNever == FALSE

(* ------------------------------ Conn.handle ---------------------------- *)
\* Lines 177-180: handle returns ErrDisconnected for a destroyed session.
Refused == m_disconnected

\* serve hands a request with a session id to the session that s.sessions
\* holds under the id (src/cli/cli.go, lines 226-233).
MRouted == m_sessions

\* Lines 175-180, 205-215: a GET of transport type t.  r is "refused" (the
\* session is disconnected), "hijackError" (Hijack fails before proceed;
\* line 222 unlocks) or "ok": proceed closes the old socket, stores the new
\* one and blocks in the send on c.connect, the mutex held.
MHandleGet(i, t, r) ==
    /\ ~panicked
    /\ MRouted
    /\ m_hpc[i] = "new"
    /\ \A j \in 1..(i - 1) : m_hpc[j] # "new"
    /\ m_mutex = Free
    /\ IF Refused \/ r = "hijackError"
         THEN /\ r = IF Refused THEN "refused" ELSE "hijackError"
              /\ m_hpc' = [m_hpc EXCEPT ![i] = "done"]
              /\ UNCHANGED <<m_mutex, m_socket, m_connected, transport>>
         ELSE /\ r = "ok"
              /\ m_mutex' = <<"handle", i>>
              /\ m_connected' = [j \in Sockets |->
                    IF j = i THEN TRUE
                    ELSE IF j = m_socket THEN FALSE ELSE m_connected[j]]
              /\ m_socket' = i
              /\ transport' = [transport EXCEPT ![i] = t]
              /\ m_hpc' = [m_hpc EXCEPT ![i] = "connect"]
    /\ UNCHANGED <<qvars, pvars, m_online, pendingHeartbeat, m_queue, flush,
                   m_disconnected, dbuf, mpc, m_numConns, ticking, m_fpc,
                   fres, fsocket, m_buf, resReady, apc, ppc, payload, timers,
                   tpc, panicked, m_ret, numBeats, numInbound, numSends,
                   m_msg, m_recv, m_written, m_sessions>>

\* Lines 175-195: a POST checks disconnected under the mutex and returns
\* ErrDisconnected, or unlocks and blocks in the send of the body on
\* c.incoming.
MHandlePost(d) ==
    /\ ~panicked
    /\ MRouted
    /\ ppc = "new"
    /\ m_mutex = Free
    /\ Refused \/ numInbound < MaxInbound
    /\ IF Refused
         THEN /\ ppc' = "refused"
              /\ UNCHANGED <<payload, numInbound>>
         ELSE /\ ppc' = "incoming"
              /\ payload' = d
              /\ numInbound' = numInbound + 1
    /\ UNCHANGED <<qvars, pvars, m_mutex, m_socket, m_online,
                   pendingHeartbeat, m_queue, flush, m_disconnected,
                   m_connected, transport, m_hpc, dbuf, mpc, m_numConns,
                   ticking, m_fpc, fres, fsocket, m_buf, resReady, apc,
                   timers, tpc, panicked, m_ret, numBeats, numSends, m_msg,
                   m_recv, m_written, m_sessions>>

(* ------------------------------ Conn.drain ----------------------------- *)
\* Line 262: socket.Receive returns a message of the client.
MDrainReceive(i, d) ==
    /\ ~panicked
    /\ m_hpc[i] = "drain"
    /\ m_connected[i]
    /\ numInbound < MaxInbound
    /\ numInbound' = numInbound + 1
    /\ dbuf' = [dbuf EXCEPT ![i] = d]
    /\ m_hpc' = [m_hpc EXCEPT ![i] = "lock"]
    /\ UNCHANGED <<qvars, pvars, m_mutex, m_socket, m_online,
                   pendingHeartbeat, m_queue, flush, m_disconnected,
                   m_connected, transport, mpc, m_numConns, ticking, m_fpc,
                   fres, fsocket, m_buf, resReady, apc, ppc, payload, timers,
                   tpc, panicked, m_ret, numBeats, numSends, m_msg, m_recv,
                   m_written, m_sessions>>

\* Lines 274-279: drain locks; if disconnected it returns (the deferred
\* Close, then line 218), else it blocks in the send on c.incoming, the
\* mutex held.
MDrainLock(i) ==
    /\ ~panicked
    /\ m_hpc[i] = "lock"
    /\ m_mutex = Free
    /\ IF m_disconnected
         THEN /\ m_connected' = Closed(i)
              /\ m_hpc' = [m_hpc EXCEPT ![i] = "disconnect"]
              /\ UNCHANGED m_mutex
         ELSE /\ m_mutex' = <<"drain", i>>
              /\ m_hpc' = [m_hpc EXCEPT ![i] = "incoming"]
              /\ UNCHANGED m_connected
    /\ UNCHANGED <<qvars, pvars, m_socket, m_online, pendingHeartbeat,
                   m_queue, flush, m_disconnected, transport, dbuf, mpc,
                   m_numConns, ticking, m_fpc, fres, fsocket, m_buf,
                   resReady, apc, ppc, payload, timers, tpc, panicked, m_ret,
                   numBeats, numInbound, numSends, m_msg, m_recv, m_written,
                   m_sessions>>

\* Lines 262-271, 259, 218: Receive fails on the closed socket; drain
\* returns, closing the socket, and the handler sends on c.disconnect.
MDrainError(i) ==
    /\ ~panicked
    /\ m_hpc[i] = "drain"
    /\ ~m_connected[i]
    /\ m_hpc' = [m_hpc EXCEPT ![i] = "disconnect"]
    /\ UNCHANGED <<qvars, pvars, m_mutex, m_socket, m_online,
                   pendingHeartbeat, m_queue, flush, m_disconnected,
                   m_connected, transport, dbuf, mpc, m_numConns, ticking,
                   m_fpc, fres, fsocket, m_buf, resReady, apc, ppc, payload,
                   timers, tpc, panicked, m_ret, numBeats, numInbound,
                   numSends, m_msg, m_recv, m_written, m_sessions>>

\* The client closes its end of the connection of request i.
ClientHangup(i) ==
    /\ ~panicked
    /\ m_hpc[i] \notin {"new", "done"}
    /\ m_connected[i]
    /\ m_connected' = Closed(i)
    /\ UNCHANGED <<qvars, pvars, m_mutex, m_socket, m_online,
                   pendingHeartbeat, m_queue, flush, m_disconnected,
                   transport, m_hpc, dbuf, mpc, m_numConns, ticking, m_fpc,
                   fres, fsocket, m_buf, resReady, apc, ppc, payload, timers,
                   tpc, panicked, m_ret, numBeats, numInbound, numSends,
                   m_msg, m_recv, m_written, m_sessions>>

\* Lines 265-266: the read timeout of a polling transport (line 207); drain
\* calls SendWait(noop(0)).
MDrainTimeout(i) ==
    /\ ~panicked
    /\ m_hpc[i] = "drain"
    /\ m_connected[i]
    /\ transport[i] = "polling"
    /\ m_hpc' = [m_hpc EXCEPT ![i] = "sendwait"]
    /\ UNCHANGED <<qvars, pvars, m_mutex, m_socket, m_online,
                   pendingHeartbeat, m_queue, flush, m_disconnected,
                   m_connected, transport, dbuf, mpc, m_numConns, ticking,
                   m_fpc, fres, fsocket, m_buf, resReady, apc, ppc, payload,
                   timers, tpc, panicked, m_ret, numBeats, numInbound,
                   numSends, m_msg, m_recv, m_written, m_sessions>>

\* Conn.SendWait (lines 140-153) as drain calls it: on a disconnected
\* session res holds ErrDisconnected and drain returns; else the noop is
\* queued and res sent on c.flush with the mutex held, which blocks while
\* the channel is full.
MSendWait(i) ==
    /\ ~panicked
    /\ m_hpc[i] = "sendwait"
    /\ m_mutex = Free
    /\ IF m_disconnected
         THEN /\ m_connected' = Closed(i)
              /\ m_hpc' = [m_hpc EXCEPT ![i] = "disconnect"]
              /\ UNCHANGED <<m_queue, flush, m_mutex>>
         ELSE /\ m_queue' = Append(m_queue, Queued("noop"))
              /\ UNCHANGED m_connected
              /\ IF Len(flush) < 1
                   THEN /\ flush' = Append(flush, "res")
                        /\ m_hpc' = [m_hpc EXCEPT ![i] = "wait"]
                        /\ UNCHANGED m_mutex
                   ELSE /\ m_mutex' = <<"drain", i>>
                        /\ m_hpc' = [m_hpc EXCEPT ![i] = "flush"]
                        /\ UNCHANGED flush
    /\ UNCHANGED <<qvars, pvars, m_socket, m_online, pendingHeartbeat,
                   m_disconnected, transport, dbuf, mpc, m_numConns, ticking,
                   m_fpc, fres, fsocket, m_buf, resReady, apc, ppc, payload,
                   timers, tpc, panicked, m_ret, numBeats, numInbound,
                   numSends, m_msg, m_recv, m_written, m_sessions>>

\* Lines 150-152: the blocked send on c.flush completes once the channel
\* has room.
MSendWaitFlush(i) ==
    /\ ~panicked
    /\ m_hpc[i] = "flush"
    /\ Len(flush) < 1
    /\ flush' = Append(flush, "res")
    /\ m_mutex' = Free
    /\ m_hpc' = [m_hpc EXCEPT ![i] = "wait"]
    /\ UNCHANGED <<qvars, pvars, m_socket, m_online, pendingHeartbeat,
                   m_queue, m_disconnected, m_connected, transport, dbuf,
                   mpc, m_numConns, ticking, m_fpc, fres, fsocket, m_buf,
                   resReady, apc, ppc, payload, timers, tpc, panicked, m_ret,
                   numBeats, numInbound, numSends, m_msg, m_recv, m_written,
                   m_sessions>>

\* Line 266: the flusher has answered on res; drain returns, closing the
\* socket, and the handler sends on c.disconnect.
MSendWaitDone(i) ==
    /\ ~panicked
    /\ m_hpc[i] = "wait"
    /\ resReady
    /\ resReady' = FALSE
    /\ m_connected' = Closed(i)
    /\ m_hpc' = [m_hpc EXCEPT ![i] = "disconnect"]
    /\ UNCHANGED <<qvars, pvars, m_mutex, m_socket, m_online,
                   pendingHeartbeat, m_queue, flush, m_disconnected,
                   transport, dbuf, mpc, m_numConns, ticking, m_fpc, fres,
                   fsocket, m_buf, apc, ppc, payload, timers, tpc, panicked,
                   m_ret, numBeats, numInbound, numSends, m_msg, m_recv,
                   m_written, m_sessions>>

(* ------------------------------ Conn.flusher --------------------------- *)
\* Line 233: the range over c.flush receives a value.
MFlusherReceive ==
    /\ ~panicked
    /\ m_fpc = "range"
    /\ flush # << >>
    /\ fres' = Head(flush)
    /\ flush' = Tail(flush)
    /\ m_fpc' = "lock"
    /\ UNCHANGED <<qvars, pvars, m_mutex, m_socket, m_online,
                   pendingHeartbeat, m_queue, m_disconnected, m_connected,
                   transport, m_hpc, dbuf, mpc, m_numConns, ticking, fsocket,
                   m_buf, resReady, apc, ppc, payload, timers, tpc, panicked,
                   m_ret, numBeats, numInbound, numSends, m_msg, m_recv,
                   m_written, m_sessions>>

\* Line 233: the range ends on the closed and empty channel.
MFlusherExit ==
    /\ ~panicked
    /\ m_fpc = "range"
    /\ flush = << >>
    /\ m_disconnected
    /\ m_fpc' = "done"
    /\ UNCHANGED <<qvars, pvars, m_mutex, m_socket, m_online,
                   pendingHeartbeat, m_queue, flush, m_disconnected,
                   m_connected, transport, m_hpc, dbuf, mpc, m_numConns,
                   ticking, fres, fsocket, m_buf, resReady, apc, ppc,
                   payload, timers, tpc, panicked, m_ret, numBeats,
                   numInbound, numSends, m_msg, m_recv, m_written,
                   m_sessions>>

\* Lines 234-240: under the mutex the queue is encoded onto buf, which
\* still holds what an earlier write failed to send, and c.socket is read.
MFlusherLock ==
    /\ ~panicked
    /\ m_fpc = "lock"
    /\ m_mutex = Free
    /\ m_buf' = m_buf \o m_queue
    /\ m_queue' = << >>
    /\ fsocket' = m_socket
    /\ m_fpc' = "write"
    /\ UNCHANGED <<qvars, pvars, m_mutex, m_socket, m_online,
                   pendingHeartbeat, flush, m_disconnected, m_connected,
                   transport, m_hpc, dbuf, mpc, m_numConns, ticking, fres,
                   resReady, apc, ppc, payload, timers, tpc, panicked, m_ret,
                   numBeats, numInbound, numSends, m_msg, m_recv, m_written,
                   m_sessions>>

\* The Write of a polling transport closes the connection
\* (src/transport_xhrpolling.go, lines 46-49).
ClosedByWrite(s) == IF transport[s] = "polling" THEN Closed(s) ELSE m_connected

\* The count Write returns includes the bytes of the header it adds: the
\* Fprintf of a polling transport (src/transport_xhrpolling.go, line 48).
\* The Write of a streaming transport returns 0 with an error
\* (src/transport_websocket.go, lines 39-45).
CountsHeader(s) == transport[s] = "polling"

\* What the last write put on the wire, recorded when the run watches
\* results.
MWritten(w) == m_written' = IF watch THEN SubSeq(m_buf, 1, w) ELSE m_written

\* Lines 242-253: buf.WriteTo(socket) without the mutex, a write that
\* fails with EAGAIN being repeated at once; then the answer on res.  An
\* empty buf makes no call of Write; a nil socket makes the call panic.
\* Of the payloads in buf the write delivers the first w, and WriteTo
\* drops the first k, moving on by the count Write returns, or all of them
\* when there is no error.
MFlusherWrite(k, w, err) ==
    /\ ~panicked
    /\ m_fpc = "write"
    /\ w <= k
    /\ k <= Len(m_buf)
    /\ IF m_buf = << >>
         THEN /\ err = "nil"
              /\ MWritten(0)
              /\ UNCHANGED <<m_buf, m_connected, panicked>>
         ELSE IF fsocket = 0
           THEN /\ err = "panic"
                /\ k = 0
                /\ panicked' = TRUE
                /\ UNCHANGED <<m_buf, m_connected, m_written>>
           ELSE /\ err \in {"nil", "error"}
                /\ IF err = "nil"
                     THEN m_connected[fsocket] /\ w = Len(m_buf)
                     ELSE /\ w < Len(m_buf)
                          /\ (k = w) \/ CountsHeader(fsocket)
                          /\ (k = 0) \/ (m_connected[fsocket] /\
                                         CountsHeader(fsocket))
                /\ m_buf' = SubSeq(m_buf, k + 1, Len(m_buf))
                /\ MWritten(w)
                /\ m_connected' = ClosedByWrite(fsocket)
                /\ UNCHANGED panicked
    /\ resReady' = IF fres = "res" /\ err # "panic" THEN TRUE ELSE resReady
    /\ m_fpc' = IF err = "panic" THEN m_fpc ELSE "range"
    /\ UNCHANGED <<qvars, pvars, m_mutex, m_socket, m_online,
                   pendingHeartbeat, m_queue, flush, m_disconnected,
                   transport, m_hpc, dbuf, mpc, m_numConns, ticking, fres,
                   fsocket, apc, ppc, payload, timers, tpc, m_ret, numBeats,
                   numInbound, numSends, m_msg, m_recv, m_sessions>>
(* -------------------------- the application --------------------------- *)
\* The error Send returns, recorded when the run watches results.
MReturns(e) == m_ret' = IF watch THEN e ELSE m_ret

\* The position of a handler that has called Send from position h and
\* waits for the mutex of line 130.
InSend(h) == h \o "Send"

\* The handler of the application calls Send.
MSendCall ==
    /\ ~panicked
    /\ apc \in Handling
    /\ m_disconnected \/ numSends < MaxSends
    /\ apc' = InSend(apc)
    /\ UNCHANGED <<qvars, pvars, m_mutex, m_socket, m_online,
                   pendingHeartbeat, m_queue, flush, m_disconnected,
                   m_connected, transport, m_hpc, dbuf, mpc, m_numConns,
                   ticking, m_fpc, fres, fsocket, m_buf, resReady, ppc,
                   payload, timers, tpc, panicked, m_ret, numBeats,
                   numInbound, numSends, m_msg, m_recv, m_written,
                   m_sessions>>

\* Conn.Send (lines 129-138), once it has the mutex.
MSend ==
    /\ ~panicked
    /\ \E h \in Handling : apc = InSend(h) /\ apc' = h
    /\ m_mutex = Free
    /\ IF m_disconnected
         THEN /\ MReturns("ErrDisconnected")
              /\ UNCHANGED <<m_queue, flush, numSends>>
         ELSE /\ dispatch("text")
              /\ numSends' = numSends + 1
              /\ MReturns("nil")
    /\ UNCHANGED <<qvars, pvars, m_mutex, m_socket, m_online,
                   pendingHeartbeat, m_disconnected, m_connected, transport,
                   m_hpc, dbuf, mpc, m_numConns, ticking, m_fpc, fres,
                   fsocket, m_buf, resReady, ppc, payload, timers, tpc,
                   panicked, numBeats, numInbound, m_msg, m_recv, m_written,
                   m_sessions>>

\* Lines 62-63: the handler calls Receive, which blocks in the receive on
\* c.incoming.
MReceive ==
    /\ ~panicked
    /\ apc \in Handling
    /\ apc' = "receive"
    /\ UNCHANGED <<qvars, pvars, m_mutex, m_socket, m_online,
                   pendingHeartbeat, m_queue, flush, m_disconnected,
                   m_connected, transport, m_hpc, dbuf, mpc, m_numConns,
                   ticking, m_fpc, fres, fsocket, m_buf, resReady, ppc,
                   payload, timers, tpc, panicked, m_ret, numBeats,
                   numInbound, numSends, m_msg, m_recv, m_written,
                   m_sessions>>

\* The deferred function of machine leaves c.incoming open.
IncomingLeftOpen == FALSE

\* Line 298: the deferred function of machine has closed c.incoming.
IncomingClosed == m_disconnected

\* Lines 63-68: the receive on the closed c.incoming makes Receive return
\* os.EOF.
MReceiveEOF ==
    /\ ~panicked
    /\ apc = "receive"
    /\ IncomingClosed
    /\ apc' = "eof"
    /\ MReceived("EOF", NoMessage)
    /\ UNCHANGED <<qvars, pvars, m_mutex, m_socket, m_online,
                   pendingHeartbeat, m_queue, flush, m_disconnected,
                   m_connected, transport, m_hpc, dbuf, mpc, m_numConns,
                   ticking, m_fpc, fres, fsocket, m_buf, resReady, ppc,
                   payload, timers, tpc, panicked, m_ret, numBeats,
                   numInbound, numSends, m_msg, m_written, m_sessions>>

\* Line 96 testing the '+' for set instead of unset.
AutoAckedOnPlus(d) == d.id > 0 /\ d.ack

\* Line 96: the message is acked by Receive.
AutoAcked(d) == d.id > 0 /\ ~d.ack

\* The switch with the arm of lines 92-93 returning the message.
DecodedReturningAll(d) ==
    CASE d.typ = "invalid" -> "failed"
      [] d.typ = "heartbeat" -> "heartbeat"
      [] d.typ = "disconnect" -> "disconnect"
      [] OTHER -> "idle"

\* What Receive does with the payload d: the decoder's error ends the loop
\* (lines 69-70); else the switch of lines 73-111 on the type of the
\* decoded message: a
\* heartbeat and a disconnect are handled under the mutex; a connect, an
\* error, an ack and a noop are logged and the loop waits for the next
\* payload; an event, a text and a json message are returned, after the
\* ack where line 96 asks for one.
Decoded(d) ==
    CASE d.typ = "invalid" -> "failed"
      [] d.typ = "heartbeat" -> "heartbeat"
      [] d.typ = "disconnect" -> "disconnect"
      [] d.typ \in {"connect", "error", "ack", "noop"} -> "receive"
      [] d.typ \in {"event", "text", "json"} ->
           IF AutoAcked(d) THEN "ack" ELSE "idle"
      [] OTHER -> "receive"

\* Lines 61-73, 114-115: Receive takes payload d from c.incoming and
\* decodes it; on the decoder's error it leaves the loop, resets the
\* decoder and returns the error.
Deliver(d) ==
    /\ apc' = Decoded(d)
    /\ m_msg' = IF Decoded(d) = "ack" THEN d ELSE NoMessage
    /\ CASE Decoded(d) = "idle" -> MReceived("nil", d)
         [] Decoded(d) = "failed" -> MReceived("decode", NoMessage)
         [] OTHER -> UNCHANGED m_recv

\* Lines 63-64 and 279-280: Receive takes what drain sends on c.incoming;
\* drain unlocks and reads on.
MDrainDeliver(i) ==
    /\ ~panicked
    /\ m_hpc[i] = "incoming"
    /\ apc = "receive"
    /\ Deliver(dbuf[i])
    /\ dbuf' = [dbuf EXCEPT ![i] = NoMessage]
    /\ m_mutex' = Free
    /\ m_hpc' = [m_hpc EXCEPT ![i] = "drain"]
    /\ UNCHANGED <<qvars, pvars, m_socket, m_online, pendingHeartbeat,
                   m_queue, flush, m_disconnected, m_connected, transport,
                   mpc, m_numConns, ticking, m_fpc, fres, fsocket, m_buf,
                   resReady, ppc, payload, timers, tpc, panicked, m_ret,
                   numBeats, numInbound, numSends, m_written, m_sessions>>

\* Lines 63-64 and 195: Receive takes what a POST sends on c.incoming.
MPostDeliver ==
    /\ ~panicked
    /\ ppc = "incoming"
    /\ apc = "receive"
    /\ ~m_disconnected
    /\ Deliver(payload)
    /\ payload' = NoMessage
    /\ ppc' = "done"
    /\ UNCHANGED <<qvars, pvars, m_mutex, m_socket, m_online,
                   pendingHeartbeat, m_queue, flush, m_disconnected,
                   m_connected, transport, m_hpc, dbuf, mpc, m_numConns,
                   ticking, m_fpc, fres, fsocket, m_buf, resReady, timers,
                   tpc, panicked, m_ret, numBeats, numInbound, numSends,
                   m_written, m_sessions>>

\* Lines 74-78: a heartbeat reply clears pendingHeartbeat; the loop then
\* blocks in the receive on c.incoming again.
MReceiveHeartbeat ==
    /\ ~panicked
    /\ apc = "heartbeat"
    /\ m_mutex = Free
    /\ pendingHeartbeat' = FALSE
    /\ apc' = "receive"
    /\ UNCHANGED <<qvars, pvars, m_mutex, m_socket, m_online, m_queue, flush,
                   m_disconnected, m_connected, transport, m_hpc, dbuf, mpc,
                   m_numConns, ticking, m_fpc, fres, fsocket, m_buf,
                   resReady, ppc, payload, timers, tpc, panicked, m_ret,
                   numBeats, numInbound, numSends, m_msg, m_recv, m_written,
                   m_sessions>>

\* Lines 80-90: a disconnect of the client.  On a live session Receive
\* closes the socket and blocks in the send on c.shutdown, the mutex held.
MReceiveDisconnect ==
    /\ ~panicked
    /\ apc = "disconnect"
    /\ m_mutex = Free
    /\ IF m_disconnected
         THEN /\ apc' = "eof"
              /\ MReceived("EOF", NoMessage)
              /\ UNCHANGED <<m_connected, m_mutex>>
         ELSE /\ m_connected' = Closed(m_socket)
              /\ m_mutex' = <<"receive", 0>>
              /\ apc' = "shutdown"
              /\ UNCHANGED m_recv
    /\ UNCHANGED <<qvars, pvars, m_socket, m_online, pendingHeartbeat,
                   m_queue, flush, m_disconnected, transport, m_hpc, dbuf,
                   mpc, m_numConns, ticking, m_fpc, fres, fsocket, m_buf,
                   resReady, ppc, payload, timers, tpc, panicked, m_ret,
                   numBeats, numInbound, numSends, m_msg, m_written,
                   m_sessions>>

\* Lines 96-107: the automatic ack.  On a disconnected session Receive
\* returns os.EOF; else it dispatches the ack under the mutex and returns
\* the message.
MReceiveAck ==
    /\ ~panicked
    /\ apc = "ack"
    /\ m_mutex = Free
    /\ IF m_disconnected
         THEN /\ apc' = "eof"
              /\ MReceived("EOF", NoMessage)
              /\ UNCHANGED <<m_queue, flush>>
         ELSE /\ dispatch(Ack(m_msg.id))
              /\ apc' = "idle"
              /\ MReceived("nil", m_msg)
    /\ m_msg' = NoMessage
    /\ UNCHANGED <<qvars, pvars, m_mutex, m_socket, m_online,
                   pendingHeartbeat, m_disconnected, m_connected, transport,
                   m_hpc, dbuf, mpc, m_numConns, ticking, m_fpc, fres,
                   fsocket, m_buf, resReady, ppc, payload, timers, tpc,
                   panicked, m_ret, numBeats, numInbound, numSends,
                   m_written, m_sessions>>

\* src/cli/cli.go, lines 206-210: the handler of the application returns
\* and the server calls c.close().
MReturn ==
    /\ ~panicked
    /\ apc \in Handling
    /\ apc' = "close"
    /\ UNCHANGED <<qvars, pvars, m_mutex, m_socket, m_online,
                   pendingHeartbeat, m_queue, flush, m_disconnected,
                   m_connected, transport, m_hpc, dbuf, mpc, m_numConns,
                   ticking, m_fpc, fres, fsocket, m_buf, resReady, ppc,
                   payload, timers, tpc, panicked, m_ret, numBeats,
                   numInbound, numSends, m_msg, m_recv, m_written,
                   m_sessions>>

\* Conn.close (lines 167-172): Send(disconnect("")), and unless that
\* returned ErrDisconnected the send on c.shutdown, without the mutex.
MClose ==
    /\ ~panicked
    /\ apc = "close"
    /\ m_mutex = Free
    /\ IF m_disconnected
         THEN /\ apc' = "done"
              /\ UNCHANGED <<m_queue, flush>>
         ELSE /\ dispatch("disconnect")
              /\ apc' = "closing"
    /\ UNCHANGED <<qvars, pvars, m_mutex, m_socket, m_online,
                   pendingHeartbeat, m_disconnected, m_connected, transport,
                   m_hpc, dbuf, mpc, m_numConns, ticking, m_fpc, fres,
                   fsocket, m_buf, resReady, ppc, payload, timers, tpc,
                   panicked, m_ret, numBeats, numInbound, numSends, m_msg,
                   m_recv, m_written, m_sessions>>

(* ----------------------- the steps of the session --------------------- *)
\* The steps of the goroutines of the session.
MProgram ==
    \/ \E i \in Sockets : MConnect(i)
    \/ MSendConnect
    \/ \E i \in Sockets : MDisconnect(i)
    \/ MHeartbeat
    \/ MArmTimeout
    \/ MTimeout
    \/ MShutdownTimeout
    \/ MShutdownReceive
    \/ MShutdownClose
    \/ MCloseTimeout
    \/ MTeardown
    \/ MPanic
    \/ \E i \in Sockets : MDrainLock(i)
    \/ \E i \in Sockets : MDrainError(i)
    \/ \E i \in Sockets : MSendWait(i)
    \/ \E i \in Sockets : MSendWaitFlush(i)
    \/ \E i \in Sockets : MSendWaitDone(i)
    \/ MFlusherReceive
    \/ MFlusherExit
    \/ MFlusherLock
    \/ \E k \in 0 .. Len(m_buf), w \in 0 .. Len(m_buf) :
         \E err \in {"nil", "error", "panic"} : MFlusherWrite(k, w, err)
    \/ MReceiveEOF
    \/ \E i \in Sockets : MDrainDeliver(i)
    \/ MPostDeliver
    \/ MReceiveHeartbeat
    \/ MReceiveDisconnect
    \/ MClose

\* The steps of the clients, of the clock and of the application.
MEnvironment ==
    \/ \E i \in Sockets, t \in TransportTypes :
         \E r \in {"ok", "refused", "hijackError"} : MHandleGet(i, t, r)
    \/ \E d \in Messages : MHandlePost(d)
    \/ \E i \in Sockets, d \in Messages : MDrainReceive(i, d)
    \/ \E i \in Sockets : MDrainTimeout(i)
    \/ \E i \in Sockets : ClientHangup(i)
    \/ MTick
    \/ MSendCall
    \/ MSend
    \/ MReceive
    \/ MReturn

MNext == MProgram \/ MEnvironment

\* The steps on the way of a payload from Send to the wire: the
\* attachments, the flusher, and machine without its heartbeats.
FNext ==
    \/ \E i \in Sockets, t \in TransportTypes :
         \E r \in {"ok", "refused", "hijackError"} : MHandleGet(i, t, r)
    \/ \E i \in Sockets : MConnect(i)
    \/ MSendConnect
    \/ \E i \in Sockets : MDisconnect(i)
    \/ MCloseTimeout
    \/ MTeardown
    \/ \E i \in Sockets : MDrainError(i)
    \/ \E i \in Sockets : ClientHangup(i)
    \/ \E i \in Sockets : MDrainTimeout(i)
    \/ \E i \in Sockets : MSendWait(i)
    \/ \E i \in Sockets : MSendWaitFlush(i)
    \/ \E i \in Sockets : MSendWaitDone(i)
    \/ MFlusherReceive
    \/ MFlusherExit
    \/ MFlusherLock
    \/ \E k \in 0 .. Len(m_buf), w \in 0 .. Len(m_buf) :
         \E err \in {"nil", "error", "panic"} : MFlusherWrite(k, w, err)
    \/ MSendCall
    \/ MSend

\* The steps of Receive and of the goroutines it waits for, on a session
\* no transport attaches to.
RProgram ==
    \/ MPostDeliver
    \/ MReceiveHeartbeat
    \/ MReceiveDisconnect
    \/ MReceiveAck
    \/ MReceiveEOF
    \/ MShutdownReceive
    \/ MShutdownClose
    \/ MCloseTimeout
    \/ MTeardown
    \/ MPanic
    \/ MClose

\* The client sends by POST any message decodePacket can produce; the
\* application calls Receive and Send and returns.
REnvironment ==
    \/ \E d \in AllMessages : MHandlePost(d)
    \/ MReceive
    \/ MSendCall
    \/ MSend
    \/ MReturn

RNext == RProgram \/ REnvironment

\* The steps of a session whose clients attach and send, by POST and on
\* the attached socket, payloads the decoder rejects.
ENext ==
    \/ \E i \in Sockets, t \in TransportTypes :
         \E r \in {"ok", "refused", "hijackError"} : MHandleGet(i, t, r)
    \/ \E i \in Sockets : MConnect(i)
    \/ MSendConnect
    \/ \E i \in Sockets : MDisconnect(i)
    \/ MCloseTimeout
    \/ MTeardown
    \/ \E i \in Sockets : MDrainLock(i)
    \/ \E i \in Sockets : MDrainReceive(i, Undecodable)
    \/ \E i \in Sockets : MDrainDeliver(i)
    \/ \E i \in Sockets : MDrainError(i)
    \/ \E i \in Sockets : MDrainTimeout(i)
    \/ \E i \in Sockets : ClientHangup(i)
    \/ MHandlePost(Undecodable)
    \/ MPostDeliver
    \/ MFlusherReceive
    \/ MFlusherExit
    \/ MFlusherLock
    \/ \E k \in 0 .. Len(m_buf), w \in 0 .. Len(m_buf) :
         \E err \in {"nil", "error", "panic"} : MFlusherWrite(k, w, err)
    \/ MReceive
    \/ MReceiveEOF
    \/ MReturn

(* ======================================================================= *)
(*            Part III: the request handler and the codecs                 *)
(* ======================================================================= *)

\* Number of entries of Config.Origins.
MaxOrigins == 2

\* A string is a sequence of tokens; ":" is a token of its own.
\* strings.Index(s, sep), 0 when sep is not in s.
Index(s, sep) ==
    IF \E i \in 1 .. Len(s) : s[i] = sep
      THEN CHOOSE i \in 1 .. Len(s) : s[i] = sep /\ \A j \in 1 .. (i - 1) : s[j] # sep
      ELSE 0

\* strings.SplitN(s, sep, n) and bytes.SplitN: s cut at its first n - 1
\* separators, the last part being what is left.
RECURSIVE SplitN(_, _, _)
SplitN(s, sep, n) ==
    LET i == Index(s, sep)
    IN  IF n <= 1 \/ i = 0 THEN <<s>>
        ELSE <<SubSeq(s, 1, i - 1)>> \o SplitN(SubSeq(s, i + 1, Len(s)), sep, n - 1)

\* Entries of Config.Origins: "host" and "host:port", each "*" or a value.
OriginEntries ==
    LET hosts == {<<"a">>, <<"*">>}
        ports == {<<"*">>, <<"80">>, <<"443">>}
    IN  hosts \cup {h \o <<":">> \o p : h \in hosts, p \in ports}

\* Config.Origins is nil by default (src/config.go, line 48).
NilOrigins == [isNil |-> TRUE, list |-> << >>]

OriginConfigs ==
    {NilOrigins} \cup
    {[isNil |-> FALSE, list |-> l] :
        l \in UNION {[1 .. n -> OriginEntries] : n \in 0 .. MaxOrigins}}

\* What url.Parse makes of an Origin header: an error, or a URL with its
\* Scheme and its Host ("evil.com" parses to a path, the Host empty).
NoURL == [err |-> TRUE, Scheme |-> "", Host |-> << >>]

ParsedOrigins ==
    LET names == {<<"a">>, <<"b">>}
        ports == {<<"80">>, <<"443">>, <<"8080">>}
        hosts == {<< >>} \cup names \cup {h \o <<":">> \o p : h \in names, p \in ports}
    IN  {NoURL} \cup
        {[err |-> FALSE, Scheme |-> s, Host |-> h] :
            s \in {"", "http", "https", "ws", "wss"}, h \in hosts}

\* The requests: the method, the Origin header (present is false when the
\* header is missing or empty) and the answer of isAuthorized.
Requests ==
    [method : {"GET", "POST", "OPTIONS", "PUT"},
     origin : {[present |-> FALSE, url |-> NoURL]} \cup
              {[present |-> TRUE, url |-> u] : u \in ParsedOrigins},
     authorized : BOOLEAN]

\* No request is being served.
OInit ==
    /\ cfgOrigins = NilOrigins
    /\ req = [method |-> "GET", origin |-> [present |-> FALSE, url |-> NoURL],
              authorized |-> TRUE]
    /\ spc = "done"
    /\ status = 0
    /\ conn = FALSE

\* A request arrives at a server of some configuration.
OriginInit ==
    /\ cfgOrigins \in OriginConfigs
    /\ req \in Requests
    /\ spc = "new"
    /\ status = 0
    /\ conn = FALSE

(* ------------------------- SocketIO.verifyOrigin ----------------------- *)
\* Lines 272-293: one turn of the loop, o being the entry and u the URL.
OriginAllows(o, u) ==
    LET origin == SplitN(o, ":", 2)
        host == SplitN(u.Host, ":", 2)
    IN  /\ origin[1] = <<"*">> \/ origin[1] = host[1]
        /\ \/ Len(origin) < 2
           \/ origin[2] = <<"*">>
           \/ IF Len(host) < 2
                THEN \/ u.Scheme \in {"http", "ws"} /\ origin[2] = <<"80">>
                     \/ u.Scheme \in {"https", "wss"} /\ origin[2] = <<"443">>
                ELSE origin[2] = host[2]

\* A faulty variant of verifyOrigin: only the first entry is looked at.
verifyOriginFirstEntry(origins, u) ==
    /\ ~origins.isNil
    /\ ~u.err /\ u.Host # << >>
    /\ origins.list # << >> /\ OriginAllows(origins.list[1], u)

\* Lines 260-297, the second result: false when Config.Origins is nil,
\* when the header does not parse or has no host, and when the loop ends.
verifyOrigin(origins, u) ==
    /\ ~origins.isNil
    /\ ~u.err /\ u.Host # << >>
    /\ \E i \in 1 .. Len(origins.list) : OriginAllows(origins.list[i], u)

(* ---------------------------- SocketIO.handle -------------------------- *)
\* Lines 150-179: authorization, the origin check when the request has an
\* Origin header, the method.
SIOHandle ==
    /\ spc = "new"
    /\ IF ~req.authorized
         THEN spc' = "unauthorized" /\ status' = 401
         ELSE IF req.origin.present /\ ~verifyOrigin(cfgOrigins, req.origin.url)
           THEN spc' = "badOrigin" /\ status' = 401
           ELSE CASE req.method = "OPTIONS" -> spc' = "options" /\ status' = 200
                  [] req.method \in {"GET", "POST"} -> spc' = "route" /\ UNCHANGED status
                  [] OTHER -> spc' = "badMethod" /\ status' = 401
    /\ UNCHANGED <<qvars, mvars, cfgOrigins, req, conn, pkt, frames, sent,
                   dec, sio, decoded, chunks, cpc, rnd, sid, ipc>>

\* Lines 181-213: newConn or GetConn, then c.handle.  r is "noConn" (400),
\* "newConnError" (500), "handleError" (401) or "ok".
SIORoute(r) ==
    /\ spc = "route"
    /\ spc' = "done"
    /\ conn' = TRUE
    /\ status' = CASE r = "noConn" -> 400
                   [] r = "newConnError" -> 500
                   [] r = "handleError" -> 401
                   [] OTHER -> 0
    /\ UNCHANGED <<qvars, mvars, cfgOrigins, req, pkt, frames, sent, dec,
                   sio, decoded, chunks, cpc, rnd, sid, ipc>>

OriginNext ==
    \/ SIOHandle
    \/ \E r \in {"ok", "noConn", "newConnError", "handleError"} : SIORoute(r)


(* ------------------- the length-prefixed typed framing ----------------- *)
\* Largest type of a message given to the Encoder (Message.typ is a uint8;
\* the declared types are 0 .. 8).
MaxType == 10
\* Longest endpoint and longest data of a message given to the Encoder.
MaxStr == 1
\* Number of chunks the encoded bytes are written to the Decoder in.
MaxChunks == 2

\* The decimal digits, and the three bytes of U+FFFD in UTF-8.
Digits == <<"0", "1", "2", "3", "4", "5", "6", "7", "8", "9">>

FFFD == <<"EF", "BF", "BD">>

IsDigit(c) == \E i \in 1 .. 10 : Digits[i] = c

DigitValue(c) == (CHOOSE i \in 1 .. 10 : Digits[i] = c) - 1

\* fmt's %d of a number that is not negative.
RECURSIVE Itoa(_)
Itoa(n) ==
    IF n < 10 THEN <<Digits[n + 1]>>
    ELSE Itoa(n \div 10) \o <<Digits[(n % 10) + 1]>>

\* positiveInt (lines 224-235): -1 for an empty p and for one that holds
\* anything but digits.
RECURSIVE DigitsValue(_)
DigitsValue(p) ==
    IF p = << >> THEN 0
    ELSE DigitsValue(SubSeq(p, 1, Len(p) - 1)) * 10 + DigitValue(p[Len(p)])

positiveInt(p) ==
    IF Len(p) < 1 \/ \E i \in 1 .. Len(p) : ~IsDigit(p[i]) THEN -1
    ELSE DigitsValue(p)

\* Message.zero (src/message.go, lines 135-142); data nil is data empty.
ZeroMessage ==
    [typ |-> 0, id |-> 0, ack |-> FALSE, endpoint |-> << >>, data |-> << >>]

\* Strings of at most MaxStr bytes for the endpoint and the data.
Strs == UNION {[1 .. n -> {"a", ":"}] : n \in 0 .. MaxStr}

\* The messages given to the Encoder as *Message.
Packets ==
    [typ : 0 .. MaxType, id : 0 .. MaxId, ack : BOOLEAN,
     endpoint : Strs, data : Strs]

\* A faulty variant of encodePacket: the '+' of the ack flag is left out.
encodePacketWithoutPlus(msg) ==
    Itoa(msg.typ) \o <<":">>
      \o (IF msg.id > 0 THEN Itoa(msg.id) ELSE << >>)
      \o <<":">> \o msg.endpoint
      \o (IF msg.data # << >> THEN <<":">> \o msg.data ELSE << >>)

\* encodePacket for a *Message (lines 292-293, 311-332).
encodePacket(msg) ==
    Itoa(msg.typ) \o <<":">>
      \o (IF msg.id > 0 THEN Itoa(msg.id) ELSE << >>)
      \o (IF msg.ack THEN <<"+">> ELSE << >>)
      \o <<":">> \o msg.endpoint
      \o (IF msg.data # << >> THEN <<":">> \o msg.data ELSE << >>)

\* Encoder.Encode (lines 127-144): every packet framed with its length in
\* bytes between two U+FFFD.
RECURSIVE Encode(_)
Encode(ps) ==
    IF ps = << >> THEN << >>
    ELSE LET p == encodePacket(ps[1])
         IN  FFFD \o Itoa(Len(p)) \o FFFD \o p \o Encode(Tail(ps))

\* decodePacket (lines 187-222): the error and the message.
decodePacket(data) ==
    LET parts == SplitN(data, ":", 4)
        typ == positiveInt(parts[1])
        l == Len(parts[2])
        plus == l > 0 /\ parts[2][l] = "+"
        idpart == IF plus THEN SubSeq(parts[2], 1, l - 1) ELSE parts[2]
    IN  IF Len(parts) < 3
          THEN [err |-> "invalid number of parts", msg |-> ZeroMessage]
        ELSE IF ~(typ >= 0 /\ typ <= 9)
          THEN [err |-> "invalid type", msg |-> ZeroMessage]
        ELSE [err |-> "nil",
              msg |-> [typ |-> typ,
                       id |-> IF l > 0 THEN positiveInt(idpart) ELSE 0,
                       ack |-> plus,
                       endpoint |-> parts[3],
                       data |-> IF Len(parts) = 4 THEN parts[4] ELSE << >>]]

\* Buffer.ReadRune on a buffer that is not empty: U+FFFD of size 3, a byte
\* below 0x80 of size 1, or U+FFFD of size 1 for an invalid encoding.
ReadRune(b) ==
    IF Len(b) >= 3 /\ SubSeq(b, 1, 3) = FFFD THEN [r |-> "FFFD", rsize |-> 3]
    ELSE IF b[1] \in {"EF", "BF", "BD"} THEN [r |-> "FFFD", rsize |-> 1]
    ELSE [r |-> b[1], rsize |-> 1]

\* bytes.IndexRune(data, 0xFFFD): the index, from 0, of the first rune that
\* decodes to U+FFFD (an invalid encoding does), or -1.
IndexRune(data) ==
    IF \E i \in 1 .. Len(data) : data[i] \in {"EF", "BF", "BD"}
      THEN (CHOOSE i \in 1 .. Len(data) :
              /\ data[i] \in {"EF", "BF", "BD"}
              /\ \A j \in 1 .. (i - 1) : data[j] \notin {"EF", "BF", "BD"}) - 1
      ELSE -1

\* Decoder.Decode (lines 151-185) on the buffer b: the error, the message
\* and the buffer it leaves.  The slice data[index+rsize:] panics when
\* fewer than rsize bytes follow the length.
Decode(b) ==
    IF b = << >> THEN [err |-> "EOF", msg |-> ZeroMessage, buf |-> b]
    ELSE
      LET rr == ReadRune(b)
          data == SubSeq(b, rr.rsize + 1, Len(b))
          index == IndexRune(data)
          length == positiveInt(SubSeq(data, 1, index))
          body == SubSeq(data, index + rr.rsize + 1, Len(data))
          p == decodePacket(SubSeq(body, 1, length))
          single == decodePacket(b)
      IN  IF rr.r = "FFFD" /\ rr.rsize = 3
            THEN IF index <= 0
                   THEN [err |-> "frame length is empty or missing",
                         msg |-> ZeroMessage, buf |-> data]
                 ELSE IF length < 0
                   THEN [err |-> "frame length is not a positive integer",
                         msg |-> ZeroMessage, buf |-> data]
                 ELSE IF index + rr.rsize > Len(data)
                   THEN [err |-> "panic", msg |-> ZeroMessage, buf |-> data]
                 ELSE IF Len(body) < length
                   THEN [err |-> "frame length is overflowing",
                         msg |-> ZeroMessage, buf |-> data]
                 ELSE [err |-> p.err, msg |-> p.msg,
                       buf |-> SubSeq(body, length + 1, Len(body))]
            ELSE [err |-> single.err, msg |-> single.msg, buf |-> << >>]

\* SIOCodec.NewDecoder (src/codec_sio.go, lines 541-546), and the state
\* sioDecoder.Reset leaves (lines 548-556).
NewDecoder == [src |-> << >>, buf |-> << >>, length |-> 0, state |-> "Begin"]

\* The codec's caller has nothing to encode.
CInit ==
    /\ pkt = ZeroMessage
    /\ frames = << >>
    /\ sent = << >>
    /\ dec = << >>
    /\ sio = NewDecoder
    /\ decoded = << >>
    /\ chunks = 0
    /\ cpc = "done"

\* A message is about to be encoded.
CodecInit ==
    /\ pkt \in Packets
    /\ frames = << >>
    /\ sent = << >>
    /\ dec = << >>
    /\ sio = NewDecoder
    /\ decoded = << >>
    /\ chunks = 0
    /\ cpc = "encode"

\* enc.Encode(dst, []interface{}{pkt}).
CodecEncode ==
    /\ cpc = "encode"
    /\ sent' = Encode(<<pkt>>)
    /\ cpc' = "write"
    /\ UNCHANGED <<qvars, mvars, cfgOrigins, req, spc, status, conn, pkt,
                   frames, dec, sio, decoded, chunks, rnd, sid, ipc>>

\* dec.Write of the next k bytes, the last chunk being all that is left.
CodecWrite(k) ==
    /\ cpc = "write"
    /\ k \in 1 .. Len(sent)
    /\ chunks + 1 = MaxChunks => k = Len(sent)
    /\ dec' = dec \o SubSeq(sent, 1, k)
    /\ sent' = SubSeq(sent, k + 1, Len(sent))
    /\ chunks' = chunks + 1
    /\ cpc' = "decode"
    /\ UNCHANGED <<qvars, mvars, cfgOrigins, req, spc, status, conn, pkt,
                   frames, sio, decoded, rnd, sid, ipc>>

\* dec.Decode(&msg); the caller decodes again after a message and writes
\* what is left after an error.
CodecDecode ==
    /\ cpc = "decode"
    /\ LET d == Decode(dec)
       IN  /\ decoded' = Append(decoded, [err |-> d.err, msg |-> d.msg])
           /\ dec' = d.buf
           /\ cpc' = CASE d.err = "nil" -> "decode"
                       [] d.err = "panic" -> "panicked"
                       [] sent # << >> -> "write"
                       [] OTHER -> "done"
    /\ UNCHANGED <<qvars, mvars, cfgOrigins, req, spc, status, conn, pkt,
                   frames, sent, sio, chunks, rnd, sid, ipc>>

CodecNext ==
    \/ CodecEncode
    \/ \E k \in 1 .. Len(sent) : CodecWrite(k)
    \/ CodecDecode

(* --------------------------- the '~m~' framing ------------------------- *)
\* Number of frames given to the sioDecoder.
MaxFrames == 2

\* sioFrameDelim, sioFrameDelimJSON, sioFrameDelimHeartbeat (lines 377-379).
sioFrameDelim == <<"~", "m", "~">>

sioFrameDelimJSON == <<"~", "j", "~">>

sioFrameDelimHeartbeat == <<"~", "h", "~">>

\* The bytes are those of ASCII characters and the two bytes C3 A9 of the
\* character U+00E9.  utf8.DecodeRune: the rune at the front of b and its
\* size, an invalid or incomplete encoding being U+FFFD of size 1.
DecodeRune(b) ==
    IF Len(b) >= 2 /\ b[1] = "C3" /\ b[2] = "A9" THEN [r |-> "E9", size |-> 2]
    ELSE IF b[1] \in {"C3", "A9"} THEN [r |-> "FFFD", size |-> 1]
    ELSE [r |-> b[1], size |-> 1]

\* The bytes Buffer.WriteRune writes for a rune.
RuneBytes(r) ==
    CASE r = "E9" -> <<"C3", "A9">>
      [] r = "FFFD" -> FFFD
      [] OTHER -> <<r>>

\* utf8.String.RuneCount of the bytes b.
RECURSIVE RuneCount(_)
RuneCount(b) ==
    IF b = << >> THEN 0
    ELSE 1 + RuneCount(SubSeq(b, DecodeRune(b).size + 1, Len(b)))

\* The length in bytes of the first n runes of b: utf8.String.Slice(0, n).
RECURSIVE RunesLen(_, _)
RunesLen(b, n) ==
    IF n = 0 \/ b = << >> THEN 0
    ELSE LET k == DecodeRune(b).size
         IN  k + RunesLen(SubSeq(b, k + 1, Len(b)), n - 1)

\* Lines 642-652: the message of the frame's data.
sioMessage(data) ==
    IF Len(data) >= 3 /\ SubSeq(data, 1, 3) = sioFrameDelimJSON
      THEN [typ |-> "message", json |-> TRUE, data |-> SubSeq(data, 4, Len(data))]
    ELSE IF Len(data) >= 3 /\ SubSeq(data, 1, 3) = sioFrameDelimHeartbeat
      THEN [typ |-> "heartbeat", json |-> FALSE, data |-> SubSeq(data, 4, Len(data))]
    ELSE [typ |-> "message", json |-> FALSE, data |-> data]

\* A faulty variant of Failed: Reset leaves dec.length and dec.state.
FailedKeepingState(d, e) ==
    [err |-> e, isNil |-> TRUE, messages |-> << >>,
     sio |-> [NewDecoder EXCEPT !.length = d.length, !.state = d.state]]

\* dec.Reset() and return nil, err (lines 571-572, 584-585, 599-600).
Failed(d, e) ==
    [err |-> e, isNil |-> TRUE, messages |-> << >>, sio |-> NewDecoder]

\* sioDecoder.Decode (lines 558-668), d being the decoder and ms the
\* messages decoded so far: the loop L, one rune a turn.
RECURSIVE DecodeLoop(_, _), HeaderEnd(_, _, _), Data(_, _, _), Decoded1(_, _)
DecodeLoop(d0, ms) ==
    LET d1 == IF d0.state = "Begin"
                THEN [d0 EXCEPT !.state = "HeaderBegin", !.buf = << >>]
                ELSE d0
    IN  IF d1.src = << >>
          THEN [err |-> "nil", isNil |-> FALSE, messages |-> ms, sio |-> d1]
        ELSE
          LET rr == DecodeRune(d1.src)
              c == rr.r
              d == [d1 EXCEPT !.src = SubSeq(d1.src, rr.size + 1, Len(d1.src))]
              b == d.buf \o RuneBytes(c)
          IN  CASE d.state = "HeaderBegin" ->
                     IF Len(b) = Len(sioFrameDelim)
                       THEN IF b # sioFrameDelim
                              THEN Failed(d, "Malformed header")
                              ELSE DecodeLoop([d EXCEPT !.state = "Length", !.buf = << >>], ms)
                       ELSE DecodeLoop([d EXCEPT !.buf = b], ms)
                [] d.state = "Length" ->
                     IF IsDigit(c)
                       THEN DecodeLoop([d EXCEPT !.buf = b], ms)
                     ELSE IF d.buf = << >>
                       THEN Failed(d, "Atoi")
                     ELSE HeaderEnd([d EXCEPT !.length = DigitsValue(d.buf),
                                              !.buf = << >>,
                                              !.state = "HeaderEnd"], c, ms)
                [] d.state = "HeaderEnd" -> HeaderEnd(d, c, ms)
                [] OTHER -> Data(d, c, ms)

\* Lines 593-609.
HeaderEnd(d, c, ms) ==
    LET b == d.buf \o RuneBytes(c)
    IN  IF Len(b) < Len(sioFrameDelim)
          THEN DecodeLoop([d EXCEPT !.buf = b], ms)
        ELSE IF b # sioFrameDelim
          THEN Failed(d, "Malformed header")
        ELSE IF d.length > 0
          THEN DecodeLoop([d EXCEPT !.state = "Data", !.buf = << >>], ms)
          ELSE Data([d EXCEPT !.state = "Data", !.buf = << >>], c, ms)

\* Lines 611-627: a rune of the data, and with it the rest of the data if
\* src holds it all; else the loop is left until more is written.
Data(d, c, ms) ==
    IF d.length > 0
      THEN LET b == d.buf \o RuneBytes(c)
               n == d.length - 1
               k == RunesLen(d.src, n)
           IN  IF RuneCount(d.src) >= n
                 THEN Decoded1([d EXCEPT !.buf = b \o SubSeq(d.src, 1, k),
                                         !.src = SubSeq(d.src, k + 1, Len(d.src)),
                                         !.length = 0], ms)
                 ELSE [err |-> "nil", isNil |-> FALSE, messages |-> ms,
                       sio |-> [d EXCEPT !.buf = b, !.length = n]]
      ELSE Decoded1(d, ms)

\* Lines 629-652: the message is added and the next frame begins.
Decoded1(d, ms) ==
    DecodeLoop([d EXCEPT !.state = "Begin", !.buf = << >>],
               Append(ms, sioMessage(d.buf)))

sioDecode(d) == DecodeLoop(d, << >>)

\* The data of the well-formed frames, and frames that are malformed.
Bodies == {<< >>, <<"a">>, <<"C3", "A9">>, <<"~", "j", "~", "a">>}

\* The '~m~' frame of a body, the length being the number of its runes
\* (src/codec_sio.go, lines 479-489).
Frame(body) ==
    sioFrameDelim \o Itoa(RuneCount(body)) \o sioFrameDelim \o body

Malformed ==
    {<<"~", "x", "~">>, sioFrameDelim \o sioFrameDelim,
     sioFrameDelim \o <<"1", "~", "x", "~", "a">>}

Frames ==
    {[ok |-> TRUE, bytes |-> Frame(b), body |-> b] : b \in Bodies} \cup
    {[ok |-> FALSE, bytes |-> x, body |-> << >>] : x \in Malformed}

RECURSIVE Concat(_)
Concat(fs) == IF fs = << >> THEN << >> ELSE fs[1].bytes \o Concat(Tail(fs))

\* The client's frames are about to be written to a new sioDecoder.
SioInit ==
    /\ frames \in UNION {[1 .. n -> Frames] : n \in 1 .. MaxFrames}
    /\ sent = Concat(frames)
    /\ sio = NewDecoder
    /\ decoded = << >>
    /\ chunks = 0
    /\ cpc = "write"
    /\ pkt = ZeroMessage
    /\ dec = << >>

\* src.Write of the next k bytes, the last chunk being all that is left.
SioWrite(k) ==
    /\ cpc = "write"
    /\ k \in 1 .. Len(sent)
    /\ chunks + 1 = MaxChunks => k = Len(sent)
    /\ sio' = [sio EXCEPT !.src = sio.src \o SubSeq(sent, 1, k)]
    /\ sent' = SubSeq(sent, k + 1, Len(sent))
    /\ chunks' = chunks + 1
    /\ cpc' = "sioDecode"
    /\ UNCHANGED <<qvars, mvars, cfgOrigins, req, spc, status, conn, pkt,
                   frames, dec, decoded, rnd, sid, ipc>>

\* dec.Decode(), after which the caller writes what is left.
SioDecode ==
    /\ cpc = "sioDecode"
    /\ LET d == sioDecode(sio)
       IN  /\ decoded' = Append(decoded, [err |-> d.err, isNil |-> d.isNil,
                                          messages |-> d.messages])
           /\ sio' = d.sio
    /\ cpc' = IF sent # << >> THEN "write" ELSE "done"
    /\ UNCHANGED <<qvars, mvars, cfgOrigins, req, spc, status, conn, pkt,
                   frames, sent, dec, chunks, rnd, sid, ipc>>

SioNext ==
    \/ \E k \in 1 .. Len(sent) : SioWrite(k)
    \/ SioDecode

(* ----------------------------- NewSessionID ---------------------------- *)
\* Largest value of the random bytes other than the one that takes every
\* value.
MaxFill == 1

\* SessionIDLength and SessionIDCharset (src/session.go, lines 12-17).
SessionIDLength == 16

SessionIDCharset ==
    <<"0", "1", "2", "3", "4", "5", "6", "7", "8", "9", "A", "B",
      "C", "D", "E", "F", "G", "H", "I", "J", "K", "L", "M", "N",
      "O", "P", "Q", "R", "S", "T", "U", "V", "W", "X", "Y", "Z",
      "a", "b", "c", "d", "e", "f", "g", "h", "i", "j", "k", "l",
      "m", "n", "o", "p", "q", "r", "s", "t", "u", "v", "w", "x",
      "y", "z">>

\* The values of a byte.
Bytes == 0 .. 255

\* No session id is being made.
IInit ==
    /\ rnd = << >>
    /\ sid = << >>
    /\ ipc = "done"

\* NewSessionID is called: one of the bytes rand.Reader will give takes
\* every value, the others a value up to MaxFill.
IdInit ==
    /\ rnd \in {[i \in 1 .. SessionIDLength |-> IF i = p THEN b ELSE f] :
                  p \in 1 .. SessionIDLength, b \in Bytes, f \in 0 .. MaxFill}
    /\ sid = << >>
    /\ ipc = "new"

\* Line 30: the character a random byte is replaced with, the remainder
\* being taken in uint8.
CharOf(b) == SessionIDCharset[(b % Len(SessionIDCharset)) + 1]

\* NewSessionID (lines 22-35): err is the error of io.ReadFull; without
\* one every byte is replaced with its character.
NewSessionID(err) ==
    /\ ipc = "new"
    /\ IF err
         THEN sid' = << >> /\ ipc' = "error"
         ELSE /\ sid' = [i \in 1 .. SessionIDLength |-> CharOf(rnd[i])]
              /\ ipc' = "done"
    /\ UNCHANGED <<qvars, mvars, cfgOrigins, req, spc, status, conn, pkt,
                   frames, sent, dec, sio, decoded, chunks, cpc, rnd>>

IdNext == \E err \in BOOLEAN : NewSessionID(err)

(* ------------------- the specifications of Part III -------------------- *)
\* Part III at rest, for the specifications of the two sessions.
PInit == OInit /\ CInit /\ IInit

\* OriginSpec serves one request of any kind under any Config.Origins.
InitOrigin == QInit /\ watch = FALSE /\ MInit /\ OriginInit /\ CInit /\ IInit

OriginSpec == InitOrigin /\ [][OriginNext]_vars

\* CodecSpec encodes a message and decodes the bytes, written in chunks.
InitCodec == QInit /\ watch = FALSE /\ MInit /\ OInit /\ CodecInit /\ IInit

CodecSpec == InitCodec /\ [][CodecNext]_vars

\* SioSpec writes '~m~' frames, well-formed and malformed, to a sioDecoder
\* in chunks and calls Decode after each.
InitSio == QInit /\ watch = FALSE /\ MInit /\ OInit /\ SioInit /\ IInit

SioSpec == InitSio /\ [][SioNext]_vars

\* IdSpec makes a session id of the random bytes.
InitId == QInit /\ watch = FALSE /\ MInit /\ OInit /\ CInit /\ IdInit

IdSpec == InitId /\ [][IdNext]_vars

(* --------------------------- the specifications ------------------------ *)
\* Both sessions start as their constructors leave them.  Spec and SpecR
\* run the queue-based session, SpecR recording the results of the API
\* calls; MSpec runs the machine-based session.
Init == QInit /\ watch = FALSE /\ MInit /\ PInit

InitR == QInit /\ watch = TRUE /\ MInit /\ PInit

Spec == Init /\ [][QNext]_vars

SpecR == InitR /\ [][QNext]_vars

MSpec == Init /\ [][MNext]_vars

\* Every goroutine that can take a step takes one and a timer that is due
\* fires: the heartbeat ticker, the read timeout of a polling transport.
\* A client closes the connections it has opened.
MFairSpec ==
    /\ MSpec
    /\ WF_vars(MProgram)
    /\ WF_vars(MTick)
    /\ WF_vars(\E i \in Sockets : MDrainTimeout(i))
    /\ WF_vars(\E i \in Sockets : ClientHangup(i))

\* The steps the goroutines of the queue-based session take by themselves:
\* keepalive at a tick of its ticker, the handlers after accept, the
\* flusher, and the reader but for the arrival of bytes.
QProgram ==
    \/ CloseOnDisconnect
    \/ KeepaliveTick
    \/ KeepaliveOnDisconnect
    \/ \E i \in Sockets, ok \in BOOLEAN : HandleHandshake(i, ok)
    \/ \E i \in Sockets : HandleOnConnect(i)
    \/ \E i \in Sockets : HandleReturn(i)
    \/ ReaderCapture
    \/ ReaderReceived
    \/ ReaderLost
    \/ ReaderWait
    \/ ReaderExit
    \/ FlusherTake
    \/ FlusherWait
    \/ FlusherExit
    \/ FlusherLock
    \/ \E k \in 0..QueueLength, w \in 0..QueueLength :
         \E err \in {"nil", "EAGAIN", "error"} : FlusherWrite(k, w, err)

\* Every goroutine of the queue-based session that can take a step takes
\* one.
QFairSpec == Spec /\ WF_vars(QProgram)

\* The queue-based session of an application that sends no payload of its
\* own: the queue carries heartbeats only.  Everything else happens as in
\* Spec, and every goroutine that can take a step takes one.
KeepaliveNext ==
    \/ Close
    \/ Tick
    \/ \E i \in Sockets, k \in Kinds :
         \E res \in {"ok", "refused", "acceptError"} : HandleGet(i, k, res)
    \/ \E d \in Inbound : HandlePost(d)
    \/ \E d \in Inbound : ReaderReceive(d)
    \/ QProgram

KeepaliveFairSpec == Init /\ [][KeepaliveNext]_vars /\ WF_vars(QProgram)

\* FlushSpec runs the way of the payloads from Send to the wire,
\* recording what each write delivers.
FlushSpec == InitR /\ [][FNext]_vars

\* RecvSpec runs Receive on every message, recording what it returns;
\* in RecvFairSpec every goroutine that can take a step takes one.
RecvSpec == InitR /\ [][RNext]_vars

RecvFairSpec == RecvSpec /\ WF_vars(RProgram)

\* ErrSpec runs Receive on payloads the decoder rejects, on a session
\* clients attach to.
ErrSpec == InitR /\ [][ENext]_vars

(* ======================================================================= *)
(*                 Properties of the queue-based session                   *)
(* ======================================================================= *)

\* C1: the payloads written to the sockets, application payloads and
\* heartbeats alike, appear on the wire in the order in which they were
\* enqueued, whatever write failures, retries and re-attachments occurred.
C1_WireInEnqueueOrder ==
    \A j, l \in 1..Len(wire) : j < l => wire[j].seq < wire[l].seq

\* An application payload and the heartbeat enqueued after it have been
\* written, the session having been attached twice.
C1_Witness ==
    /\ numConns = 2
    /\ Len(wire) >= 2
    /\ wire[1].typ = "msg"
    /\ wire[2].typ = "hb"

\* A step of Conn.handle that re-attaches a socket to the handshaked session.
Reattach == handshaked /\ numConns' = numConns + 1

\* C2: an attachment always causes the flusher to retry its pending batch:
\* when a socket attaches to the offline session while the flusher holds a
\* batch whose write failed, the flusher goes on to write the batch to the
\* new socket.
C2_AttachmentRetriesBatch ==
    [][(Reattach /\ ~online /\ buf # << >> /\ fpc \in {"failed", "wakeup"})
          => fpc' = "write"]_vars

\* C3: Send returns ErrDestroyed when the session is disconnected,
\* ErrQueueFull when it is live and the queue holds QueueLength payloads,
\* and otherwise appends the payload at the tail of the queue and returns
\* nil; on either error the queue is unchanged.
C3_SendResult ==
    [][Send =>
         IF disconnected
           THEN ret' = "ErrDestroyed" /\ queue' = queue
           ELSE IF Len(queue) >= QueueLength
             THEN ret' = "ErrQueueFull" /\ queue' = queue
             ELSE /\ ret' = "nil"
                  /\ Len(queue') = Len(queue) + 1
                  /\ SubSeq(queue', 1, Len(queue)) = queue
                  /\ queue'[Len(queue')].typ = "msg"]_vars

\* Send has refused a payload for a live session whose queue is full.
C3_Witness ==
    /\ ret = "ErrQueueFull"
    /\ ~disconnected
    /\ Len(queue) = QueueLength

\* C4: the disconnect callback of a handshaked session is invoked exactly
\* once: never before the session is destroyed, never twice, and once when
\* the goroutine that destroyed the session has made its call.
C4_OneDisconnectCallback ==
    /\ nOnDisconnect <= 1
    /\ ~disconnected => nOnDisconnect = 0
    /\ (disconnected /\ closing = 0 /\ kpc # "onDisconnect") => nOnDisconnect = 1

\* The session was destroyed, Close and keepalive have both finished, and
\* the callback has run.
C4_Witness ==
    /\ disconnected
    /\ closing = 0
    /\ kpc = "done"
    /\ nOnConnect = 1
    /\ nOnDisconnect = 1

\* C5: Close on a live session destroys it and returns nil; a Close on a
\* destroyed session returns ErrNotConnected and changes nothing else.
C5_CloseIdempotent ==
    [][/\ (Close /\ ~disconnected) => (disconnected' /\ closing' = closing + 1)
       /\ CloseOnDisconnect => (ret' = "nil" /\ disconnected)
       /\ (Close /\ disconnected) =>
            /\ ret' = "ErrNotConnected"
            /\ UNCHANGED <<mutex, socket, online, sinceDisconnected, beats,
                           queue, chans, numConns, handshaked, disconnected,
                           connected, hvars, kpc, fvars, rvars, closing,
                           sessions, created, wire, nextSeq, calls>>]_vars

\* A later Close was refused after the first one had run the callback.
C5_Witness ==
    /\ ret = "ErrNotConnected"
    /\ nOnDisconnect = 1
    /\ kpc = "tick"

\* C6: the handshake frame is written once, on the first attachment, and
\* never on a re-attachment.
C6_OneHandshake ==
    /\ nHandshake <= 1
    /\ numConns >= 1 => nHandshake = 1
    /\ handshaked => nHandshake = 1

\* The session has been attached twice.
C6_Witness ==
    /\ numConns = 2
    /\ nHandshake = 1

\* A step of the flusher whose write fails with an error other than EAGAIN.
WriteError == fpc = "locked" /\ fpc' = "failed"

\* C7: a read error and a write error in the flusher leave the session
\* alive, the queue as it is and the pending batch intact: no payload of
\* the batch is lost, each is either on the wire or still in buf.
C7_ErrorKeepsSession ==
    [][(ReaderLost \/ WriteError) =>
         /\ disconnected' = disconnected
         /\ queue' = queue
         /\ wire' \o buf' = wire \o buf]_vars

(* ---------------------- the machine-based session ---------------------- *)
\* The session is destroyed, or the process has stopped in a panic.
Destroyed == m_disconnected \/ panicked

\* C8: on a streaming transport, once the timeout of a heartbeat has run
\* with the heartbeat still unanswered, the session is eventually destroyed
\* (and from then on Send returns ErrDisconnected).
C8_TimeoutDestroys == (tpc = "shutdown") ~> Destroyed

\* C9: once machine has taken the CloseTimeout case, no transport having
\* attached in time, the session becomes destroyed: the deferred function
\* sets disconnected and closes the channels.
C9_CloseTimeoutDestroys == (mpc = "timeout") ~> Destroyed

\* C10: once the handler of the application has returned and the server
\* calls close, the session is eventually destroyed, a transport being
\* attached or not (close having enqueued the disconnect message unless
\* the session was destroyed before).
C10_ReturnDestroys == (apc = "close") ~> Destroyed

\* C11: once Receive has decoded a disconnect message on a live session
\* (it has closed the socket and is sending on c.shutdown), Receive returns
\* and the session is eventually destroyed.
C11_DisconnectDestroys ==
    (apc = "shutdown") ~> (panicked \/ (m_disconnected /\ apc # "shutdown"))

\* C12: on a destroyed session a Receive blocked in the receive on
\* c.incoming, or called later with the decoder empty, returns os.EOF
\* instead of blocking forever.
C12_ReceiveEndsOnDestroyed ==
    (apc = "receive" /\ m_disconnected) ~> (apc = "eof" \/ panicked)

\* Receive has returned os.EOF on a session the close timeout destroyed.
C12_Witness ==
    /\ apc = "eof"
    /\ m_recv.err = "EOF"
    /\ m_disconnected
    /\ ~panicked
    /\ numInbound = 0
    /\ mpc = "done"

\* C13: Receive returns a message with a nil error only if it is an event,
\* a text or a json message; every other message is consumed inside.
C13_OnlyDataReturned ==
    m_recv.err = "nil" => m_recv.msg.typ \in {"event", "text", "json"}

\* Receive has returned a json message.
C13_Witness == m_recv.err = "nil" /\ m_recv.msg.typ = "json"

\* The acks in c.queue.
AcksQueued == SelectSeq(m_queue, LAMBDA x : x \notin {"payload", "disconnect"})

\* Receive returns a message to the application.
ReceiveReturns == apc \in {"receive", "ack"} /\ apc' = "idle"

\* C14 as stated: a message returned by Receive with a non-zero id and the
\* '+' after it has had exactly one ack of that id enqueued, and one with
\* the id 0 none.
C14_AckOnPlus ==
    [][ReceiveReturns =>
         /\ (m_recv'.msg.id > 0 /\ m_recv'.msg.ack) =>
               AcksQueued' = Append(AcksQueued, Ack(m_recv'.msg.id))
         /\ m_recv'.msg.id = 0 => AcksQueued' = AcksQueued]_vars

\* C14 amended: a message returned by Receive with an id above 0 and no
\* '+' after it has had exactly one ack of that id enqueued; any other
\* message returned has had none.
C14_AckUnlessPlus ==
    [][ReceiveReturns =>
         AcksQueued' =
           IF m_recv'.msg.id > 0 /\ ~m_recv'.msg.ack
             THEN Append(AcksQueued, Ack(m_recv'.msg.id))
             ELSE AcksQueued]_vars

\* Receive has returned an event of id 1 without '+' and its ack is queued.
C14_Witness ==
    /\ m_recv = [err |-> "nil", msg |-> Msg("event", 1, FALSE)]
    /\ AcksQueued = <<Ack(1)>>

\* C15: the flusher's buf keeps what a write has not delivered, in order
\* and ahead of what is queued later: a write takes off the front of buf
\* exactly the payloads it delivered, and the next batch is appended.
C15_BufferedUntilWritten ==
    [][/\ (m_fpc = "write" /\ m_fpc' = "range") =>
             m_buf = m_written' \o m_buf'
       /\ (m_fpc = "lock" /\ m_fpc' = "write") =>
             m_buf' = m_buf \o m_queue]_vars

\* The keepalive loop takes a tick (it counts a heartbeat or leaves the
\* loop) on a session that is not yet destroyed and whose queue is full.
TickOnFullQueue ==
    /\ kpc = "tick"
    /\ kpc' # "tick" \/ numHeartbeats' # numHeartbeats
    /\ ~disconnected
    /\ Len(queue) = QueueLength

\* C16: a keepalive tick that finds the queue of a live queue-based session
\* full destroys the session (flag set, socket closed, channels closed,
\* nothing added to the queue) and goes on to run the disconnect callback.
C16_FullQueueDestroys ==
    [][/\ TickOnFullQueue =>
             /\ disconnected' /\ queueClosed'
             /\ wakeupFlusher' = "closed" /\ wakeupReader' = "closed"
             /\ ~connected'[socket]
             /\ queue' = queue
             /\ kpc' = "onDisconnect"
       /\ (kpc = "onDisconnect" /\ kpc' # "onDisconnect") =>
             nOnDisconnect' = nOnDisconnect + 1 /\ ~sessions']_vars

\* The first tick found the queue full of messages: the heartbeat counter
\* moved, no heartbeat was ever queued, and the callback is about to run.
C16_Witness ==
    /\ kpc = "onDisconnect"
    /\ numHeartbeats = 1
    /\ Len(queue) = QueueLength
    /\ nextSeq = QueueLength + 1
    /\ disconnected

\* The payloads of the flusher's pending batch (a receive on the closed
\* queue adds nil messages to a batch, which no Send was accepted for).
PendingBatch == SelectSeq(buf, LAMBDA x : x # Null)

\* Accepted payloads not yet written: those queued and those in the batch.
Undelivered == Len(queue) + Len(PendingBatch)

C18_TableBeforeHandshake ==
    [][nHandshake' > nHandshake => sessions']_vars

\* C19: the machine-based server's session table holds a session from its
\* creation until its destruction and never a destroyed one.
C19_TableDropsDestroyed == m_sessions = ~m_disconnected

\* C20: a POST that reaches Conn.handle of a destroyed machine-based session
\* is refused, and its body is handed neither to c.incoming nor, through
\* it, to Receive's decoder: the request ends refused with no payload.
C20_PostRefused ==
    [][/\ (ppc = "new" /\ ppc' # "new" /\ m_disconnected) =>
             ppc' = "refused" /\ payload' = NoMessage
       /\ ppc = "refused" =>
             ppc' = "refused" /\ payload' = NoMessage]_vars

\* A POST was refused by a destroyed session.
C20_Witness == ppc = "refused" /\ m_disconnected /\ payload = NoMessage

\* An entry of Config.Origins matches an Origin: its host is "*" or the
\* Origin's host, and its port is missing, "*" or the Origin's port, the
\* port of an Origin without one being that of its scheme.
EntryMatches(e, u) ==
    LET SchemePort == CASE u.Scheme \in {"http", "ws"} -> "80"
                        [] u.Scheme \in {"https", "wss"} -> "443"
                        [] OTHER -> "unknown"
        port == IF Len(u.Host) = 3 THEN u.Host[3] ELSE SchemePort
    IN  /\ e[1] \in {"*", u.Host[1]}
        /\ Len(e) = 3 => e[3] \in {"*", port}

\* The origin check has refused the request: 401, and no session was
\* created, looked up or attached.
OriginRejected == spc = "badOrigin" /\ status = 401 /\ ~conn

\* The request has an Origin header and has reached the origin check.
OriginChecked == spc # "new" /\ req.authorized /\ req.origin.present

\* C21 as stated: a request with an Origin header is rejected if and only
\* if Config.Origins is non-nil and no entry matches the Origin.
C21_RejectedIffNoMatch ==
    OriginChecked =>
      (OriginRejected <=>
         /\ ~cfgOrigins.isNil
         /\ \/ req.origin.url.Host = << >>
            \/ \A i \in 1 .. Len(cfgOrigins.list) :
                 ~EntryMatches(cfgOrigins.list[i], req.origin.url))

\* C21 amended: a request with an Origin header is rejected if and only if
\* Config.Origins is nil, or the header is not a URL with a host, or no
\* entry matches the Origin.
C21_RejectedUnlessAllowed ==
    OriginChecked =>
      (OriginRejected <=>
         \/ cfgOrigins.isNil
         \/ req.origin.url.err
         \/ req.origin.url.Host = << >>
         \/ \A i \in 1 .. Len(cfgOrigins.list) :
              ~EntryMatches(cfgOrigins.list[i], req.origin.url))

\* A request with an Origin that an entry would match was rejected because
\* Config.Origins is nil.
C21_Witness ==
    /\ OriginRejected
    /\ cfgOrigins.isNil
    /\ req.origin.url = [err |-> FALSE, Scheme |-> "http", Host |-> <<"a", ":", "80">>]

\* The encoder's output for pkt was written to the Decoder in one piece and
\* decoded until Decode had nothing left.
DecodedWhole == cpc = "done" /\ chunks = 1

\* Decode has returned pkt, and then the end of the buffer.
RoundTrip ==
    decoded = <<[err |-> "nil", msg |-> pkt], [err |-> "EOF", msg |-> ZeroMessage]>>

\* C22 as stated: for every message with a type in 0 .. 8, an id >= 0,
\* either ack flag, any endpoint and any data, decoding the encoder's output
\* yields exactly one message, equal to it in every field.
C22_RoundTrip ==
    (DecodedWhole /\ pkt.typ \in 0 .. 8) => RoundTrip

\* C22 amended: the same for the messages whose ack flag is set only next
\* to an id above 0 and whose endpoint holds no ':'.
C22_RoundTripOfWellFormed ==
    (/\ DecodedWhole /\ pkt.typ \in 0 .. 8
     /\ pkt.ack => pkt.id > 0
     /\ \A i \in 1 .. Len(pkt.endpoint) : pkt.endpoint[i] # ":") => RoundTrip

\* A message with an id, the '+', an endpoint and data that holds a ':'
\* came back from the Decoder as it went into the Encoder.
C22_Witness ==
    /\ DecodedWhole /\ RoundTrip
    /\ pkt = [typ |-> 5, id |-> 1, ack |-> TRUE, endpoint |-> <<"a">>, data |-> <<":">>]

\* Decode is called on the first chunk of a frame, bytes being left to write.
DecodesPrefix == cpc = "decode" /\ chunks = 1 /\ sent # << >> /\ decoded = << >>

\* C24: when the Decoder's buffer holds only a proper prefix of a frame,
\* Decode returns no message and no decode error and leaves the bytes in the
\* buffer, and once the rest is written the frame decodes to its message.
C24_PrefixStaysBuffered ==
    [][/\ DecodesPrefix => (decoded'[1].err = "EOF" /\ dec' = dec)
       /\ (cpc = "decode" /\ chunks = 2 /\ decoded'[Len(decoded')].err = "nil")
             => decoded'[Len(decoded')].msg = pkt]_vars

\* C27: a frame decodes only if its type is one of the nine declared tags
\* 0 .. 8: the frame the Encoder makes of a message of any other type is
\* rejected with a decode error.
C27_DeclaredTypesOnly ==
    (DecodedWhole /\ pkt.typ \notin 0 .. 8) => decoded[1].err = "invalid type"

\* The messages of all calls of Decode so far, in their order.
RECURSIVE AllMessagesOf(_)
AllMessagesOf(ds) ==
    IF ds = << >> THEN << >> ELSE ds[1].messages \o AllMessagesOf(Tail(ds))

\* Well-formed frames were written to the sioDecoder, in any chunks, and
\* Decode was called after each chunk.
WroteWellFormed ==
    /\ frames # << >> /\ cpc = "done"
    /\ \A i \in 1 .. Len(frames) : frames[i].ok

\* C23: for any well-formed '~m~' frames and any split of their bytes into
\* chunks, the calls of Decode after each chunk yield, in total, exactly the
\* frames' messages in their order, with no error and no nil result.
C23_ChunkedDecode ==
    WroteWellFormed =>
      /\ \A i \in 1 .. Len(decoded) : decoded[i].err = "nil" /\ ~decoded[i].isNil
      /\ AllMessagesOf(decoded) = [i \in 1 .. Len(frames) |-> sioMessage(frames[i].body)]

\* The last call of Decode returned a decode error.
DecodeFailed == decoded # << >> /\ decoded[Len(decoded)].err # "nil"

\* C25: after the '~m~' decoder has returned a decode error all of its
\* state and its buffers are as those of a new decoder, and a well-formed
\* frame written then decodes to its message.
C25_ErrorResets ==
    /\ []((DecodeFailed /\ cpc # "sioDecode") => sio = NewDecoder)
    /\ [][\A b \in Bodies :
            (cpc = "sioDecode" /\ DecodeFailed /\ sio.src = Frame(b)) =>
               decoded'[Len(decoded')] =
                 [err |-> "nil", isNil |-> FALSE, messages |-> <<sioMessage(b)>>]]_vars

\* A malformed frame was refused and the frame written next was decoded.
C25_Witness ==
    /\ cpc = "done" /\ Len(decoded) = 2 /\ Len(frames) = 2
    /\ ~frames[1].ok /\ frames[2].body = <<"~", "j", "~", "a">>
    /\ decoded[1].err = "Malformed header"
    /\ decoded[2] = [err |-> "nil", isNil |-> FALSE,
                     messages |-> <<[typ |-> "message", json |-> TRUE, data |-> <<"a">>]>>]

\* The step in which Receive returns the decoder's error.
DecodeErrorReturned == apc # "failed" /\ apc' = "failed"

\* C26: when Receive meets a decode error, the attached socket is closed
\* and the session is not destroyed by it.
C26_DecodeErrorClosesSocket ==
    [][DecodeErrorReturned =>
         /\ m_socket' # 0 => ~m_connected'[m_socket']
         /\ m_disconnected' = m_disconnected]_vars

\* The attached transport is a polling transport.
Polling == m_socket # 0 /\ transport[m_socket] = "polling"

\* The step enqueues a heartbeat; the step arms a heartbeat timeout.
HeartbeatEnqueued == mpc = "tick" /\ mpc' = "arm"

TimeoutArmed == timers' > timers

\* C28: while the attached transport is a polling transport, no heartbeat
\* is enqueued and no heartbeat timeout is armed.
C28_PollingNeverHeartbeats ==
    [][Polling => ~HeartbeatEnqueued /\ ~TimeoutArmed]_vars

\* The number of the 256 byte values that produce the character c.
Producers(c) == Cardinality({b \in Bytes : CharOf(b) = c})

\* The characters of SessionIDCharset.
Charset == {SessionIDCharset[k] : k \in 1 .. Len(SessionIDCharset)}

\* C29: a generated session id has 16 characters of [0-9A-Za-z], and
\* every one of the 62 characters is produced by as many byte values as
\* the character at each position of the id.
C29_UniformSessionID ==
    ipc = "done" /\ sid # << >> =>
        /\ Len(sid) = 16
        /\ \A i \in 1 .. Len(sid) :
             /\ sid[i] \in Charset
             /\ \A c \in Charset : Producers(c) = Producers(sid[i])

\* The step writes the handshake to the socket; the step is the flusher's
\* write of a batch that is not empty.
HandshakeWritten == nHandshake' > nHandshake

BatchWritten == fpc = "locked" /\ fpc' # "locked" /\ buf # << >>

\* C30: no goroutine of the queue-based session holds the mutex while it
\* reads from the socket or writes to it: not the reader in its read, not
\* the flusher in its batch write, not handle in the handshake write.
C30_NoSocketIOUnderMutex ==
    [][/\ rpc = "read" => mutex[1] # "reader"
       /\ BatchWritten => mutex[1] # "flusher"
       /\ HandshakeWritten => mutex[1] # "handle"]_vars

\* drain, serving request i, holds the mutex and is blocked in the send of
\* a payload on c.incoming.
DrainBlocked(i) == m_hpc[i] = "incoming" /\ m_mutex = <<"drain", i>>

\* Receive, handling a heartbeat or about to ack, or a Send of the
\* application waits for the mutex.
WaitsForMutex ==
    \/ apc \in {"heartbeat", "ack"}
    \/ \E h \in Handling : apc = InSend(h)

\* C31: Send never blocks for good and every payload drain reads reaches
\* Receive: in no state does drain hold the mutex, blocked handing a
\* payload to Receive, while Receive or a Send of the application waits
\* for the mutex.
C31_DrainNeverBlocksSend ==
    \A i \in Sockets : ~(DrainBlocked(i) /\ WaitsForMutex)

\* C32: no goroutine sends on a channel of the session that the teardown
\* of machine has closed: close, a POST, drain's handler and the heartbeat
\* timeout interleave with the teardown without a send on a closed channel.
C32_NoSendOnClosedChannel == ~panicked

\* The handler of request i has stored its socket and signals connect
\* while the handler of another request is still attached.
Reattaching(i) ==
    /\ m_hpc[i] = "connect"
    /\ \E j \in Sockets \ {i} : m_hpc[j] \notin {"new", "done"}

\* C33: attaching a transport while another is still attached always
\* completes: the old drain exits, machine goes offline and then online
\* with the new socket, receiving the connect of the handler.
C33_ReattachCompletes ==
    \A i \in Sockets : Reattaching(i) ~> (m_hpc[i] # "connect" /\ m_online)

\* The handler of request i holds the mutex.
HandleHolds(i) == mutex = <<"handle", i>>

\* C34: handle releases the mutex as soon as the new socket is installed,
\* for every transport: the handler of a websocket, whose accept blocks
\* until the socket is closed, does not hold the mutex meanwhile.
C34_AcceptedWithoutMutex ==
    \A i \in Sockets : hpc[i] = "accepted" => ~HandleHolds(i)

\* Socket i is attached while the reader reads from an older socket.
ReadsOldSocket(i) == socket = i /\ rpc = "read" /\ rsocket # i

\* C35: when a socket attaches while an old one is attached, the old one
\* is closed before the new one is installed, and the reader, after it has
\* noticed the closure, resumes reading from the new socket (unless the
\* session is destroyed first).
C35_ReaderResumes ==
    /\ [](\A i \in Sockets : ReadsOldSocket(i) => ~connected[rsocket])
    /\ \A i \in Sockets :
         ReadsOldSocket(i) ~> ((rpc = "read" /\ rsocket = i) \/ disconnected)

\* The step in which the heartbeat timeout finds the heartbeat pending,
\* closes the socket and goes on to signal the shutdown.
TimeoutShutsDown == tpc = "idle" /\ tpc' = "shutdown"

\* C36: a heartbeat timeout armed while a transport was attached does not
\* destroy the session once the transport has detached: the timeout shuts
\* the session down only while it is online.
C36_TimeoutOnlyOnline == [][TimeoutShutsDown => m_online]_vars

\* A step that runs disconnect(): the one of Close, which goes on to call
\* the disconnect callback, or the one of keepalive.
DisconnectRuns ==
    \/ closing' > closing
    \/ kpc = "tick" /\ kpc' = "onDisconnect"

\* No channel of the session is closed yet.
ChannelsOpen ==
    /\ ~queueClosed
    /\ wakeupFlusher # "closed"
    /\ wakeupReader # "closed"

\* C37: disconnect() runs at most once per session, and no goroutine sends
\* on the outbound queue or on a wakeup channel once it is closed: the step
\* that runs disconnect finds every channel open, and so does every step
\* that enqueues a payload and every attachment, which sends the wakeups.
C37_NoSendAfterClose ==
    [][/\ DisconnectRuns => ChannelsOpen
       /\ Len(queue') > Len(queue) => ChannelsOpen
       /\ numConns' > numConns => ChannelsOpen]_vars

\* The session was destroyed after an attachment and a Send or a Close on
\* it was refused afterwards.
C37_Witness ==
    /\ ~ChannelsOpen
    /\ numConns >= 1
    /\ ret \in {"ErrDestroyed", "ErrNotConnected"}

\* C38: the connect callback and the insertion into the session table
\* happen before the disconnect callback and the removal: the disconnect
\* callback runs on a session whose connect callback has run, and a session
\* whose disconnect callback has run is not in the table.
C38_ConnectBeforeDisconnect ==
    nOnDisconnect > 0 => (nOnConnect > 0 /\ ~sessions)

\* A POST of the live session hands its data field to receive.
PostReceives == \E d \in Inbound : HandlePost(d) /\ ~disconnected

\* C39: at most one goroutine at a time runs receive: no POST handler runs
\* receive while the reader is inside its own call of receive.
C39_OneReceiveAtATime == [][PostReceives => rpc # "receive"]_vars

\* The three goroutines of the session have returned.
GoroutinesDone == kpc = "done" /\ fpc = "done" /\ rpc = "done"

\* C40: once the session is destroyed, keepalive, the flusher and the
\* reader all terminate.
C40_GoroutinesTerminate == disconnected ~> GoroutinesDone

\* The session was destroyed while a batch was pending and a socket was
\* attached, and the three goroutines have returned.
C40_Witness ==
    /\ disconnected
    /\ GoroutinesDone
    /\ numConns >= 1
    /\ buf # << >>

====
